---- MODULE Spec2Model ----
(***************************************************************************)
(* Slot ledger and event catalog of queue-bot (src/database.py), as a      *)
(* state machine over the two SQLite tables `events` and `queue`.          *)
(*                                                                         *)
(* A queue row is [event_id, position, user_id, username]; the columns id, *)
(* first_name and registered_at carry no constraint and are read by no     *)
(* condition of database.py, so they are not part of the row.              *)
(***************************************************************************)
EXTENDS Integers, FiniteSets, Sequences, TLC

VARIABLES events, nextId, queue, last, procs, config, fsm, allowed, pending,
          handlers

\* the state of bot.py: the identity lists read from the environment
\* (config, allowed), the conversation (FSM state and data) of one caller,
\* the pending_exchanges dictionary and the exchange callbacks in flight
botVars == <<config, fsm, allowed, pending, handlers>>

vars == <<events, nextId, queue, last, procs, botVars>>

---------------------------------------------------------------------------
(* Bounds of the model.                                                    *)

\* largest max_positions an event is created with
MaxCap == 3

\* the temporary position swap_positions writes
Sentinel == -1

\* callers; caller 3 carries a handle equal to caller 2's up to letter case
UserIds == {1, 2, 3}

Username(u) == CASE u = 1 -> "ann" [] u = 2 -> "Bob" [] OTHER -> "bob"

\* SQL LOWER() / str.lower() on the handles of the model
Lower(s) == IF s = "Bob" THEN "bob" ELSE s

Handles == {"ann", "bob", "zed"}

\* the ids the AUTOINCREMENT key of `events` hands out before the model stops
\* creating events; calls name one of them, live or not
EventArgs == {1, 2}

PosArgs == 0..(MaxCap + 1)

\* the (name, max_positions) pairs events are created with: one event of
\* the largest capacity and one of capacity 1
NewEvents == {[name |-> "os", max_positions |-> MaxCap],
              [name |-> "db", max_positions |-> 1]}

---------------------------------------------------------------------------
(* SQL statements on the tables, with the constraints of init_db.          *)

\* SELECT * FROM events WHERE id = ?
EventRows(ev, event_id) == {e \in ev : e.id = event_id}

\* SELECT ... FROM queue WHERE event_id = ? AND position = ?
RowsAt(q, event_id, position) ==
    {r \in q : r.event_id = event_id /\ r.position = position}

\* SELECT ... FROM queue WHERE event_id = ? AND user_id = ?
RowsOf(q, event_id, user_id) ==
    {r \in q : r.event_id = event_id /\ r.user_id = user_id}

\* SELECT ... FROM queue WHERE event_id = ?
RowsIn(q, event_id) == {r \in q : r.event_id = event_id}

\* UNIQUE(event_id, position) and UNIQUE(event_id, user_id) as checked when
\* `row` is written next to the rows `others`
UniqueOk(others, row) ==
    /\ RowsAt(others, row.event_id, row.position) = {}
    /\ RowsOf(others, row.event_id, row.user_id) = {}

\* INSERT INTO a queue table created without its two UNIQUE constraints
InsertRowUnchecked(q, row) == [ok |-> TRUE, rows |-> q \cup {row}]

\* INSERT INTO queue: [ok |-> FALSE] stands for sqlite3.IntegrityError
InsertRow(q, row) ==
    IF UniqueOk(q, row)
    THEN [ok |-> TRUE, rows |-> q \cup {row}]
    ELSE [ok |-> FALSE, rows |-> q]

\* UPDATE queue SET position = ? WHERE event_id = ? AND user_id = ?
UpdatePosition(q, event_id, user_id, position) ==
    LET hit == RowsOf(q, event_id, user_id)
        rest == q \ hit
        moved == {[r EXCEPT !.position = position] : r \in hit}
    IN  IF \A r \in moved : UniqueOk(rest, r)
        THEN [ok |-> TRUE, rows |-> rest \cup moved]
        ELSE [ok |-> FALSE, rows |-> q]

Ret(ok, kind, info) == [ok |-> ok, kind |-> kind, info |-> info]

---------------------------------------------------------------------------
(* Event catalog.                                                          *)

add_event(ev, nid, name, max_positions, subgroup) ==
    IF \E e \in ev : e.name = name
    THEN [events |-> ev, nextId |-> nid, ret |-> Ret(FALSE, "DuplicateName", 0)]
    ELSE [events |-> ev \cup {[id |-> nid, name |-> name,
                               max_positions |-> max_positions,
                               subgroup |-> subgroup]},
          nextId |-> nid + 1,
          ret |-> Ret(TRUE, "OK", nid)]

\* delete_event without the DELETE on `queue`; the foreign key of the table
\* is not enforced
delete_event_keep_rows(ev, q, event_id) ==
    [events |-> ev \ EventRows(ev, event_id),
     queue |-> q,
     ret |-> IF EventRows(ev, event_id) # {}
             THEN Ret(TRUE, "OK", 0) ELSE Ret(FALSE, "NotFound", 0)]

delete_event(ev, q, event_id) ==
    [events |-> ev \ EventRows(ev, event_id),
     queue |-> q \ RowsIn(q, event_id),
     ret |-> IF EventRows(ev, event_id) # {}
             THEN Ret(TRUE, "OK", 0) ELSE Ret(FALSE, "NotFound", 0)]

\* rename_event on a table that lacks UNIQUE(name)
rename_event_unchecked(ev, event_id, new_name) ==
    LET hit == EventRows(ev, event_id)
        rest == ev \ hit
        moved == {[e EXCEPT !.name = new_name] : e \in hit}
    IN  [events |-> rest \cup moved, ret |-> Ret(TRUE, "OK", 0)]

rename_event(ev, event_id, new_name) ==
    LET hit == EventRows(ev, event_id)
        rest == ev \ hit
        moved == {[e EXCEPT !.name = new_name] : e \in hit}
    IN  IF hit # {} /\ \E e \in rest : e.name = new_name
        THEN [events |-> ev, ret |-> Ret(FALSE, "DuplicateName", 0)]
        ELSE [events |-> rest \cup moved, ret |-> Ret(TRUE, "OK", 0)]

---------------------------------------------------------------------------
(* Slot ledger.                                                            *)

\* register_position with the caller's check ahead of the position's
register_position_user_first(ev, q, event_id, position, user_id, username) ==
    LET event == EventRows(ev, event_id)
    IN  IF event = {}
        THEN [queue |-> q, ret |-> Ret(FALSE, "EventNotFound", 0)]
        ELSE
        LET max_pos == (CHOOSE e \in event : TRUE).max_positions
            existing == RowsAt(q, event_id, position)
            user_pos == RowsOf(q, event_id, user_id)
            row == [event_id |-> event_id, position |-> position,
                    user_id |-> user_id, username |-> username]
            ins == InsertRow(q, row)
        IN  IF position < 1 \/ position > max_pos
            THEN [queue |-> q, ret |-> Ret(FALSE, "OutOfRange", max_pos)]
            ELSE IF user_pos # {}
            THEN [queue |-> q,
                  ret |-> Ret(FALSE, "AlreadyRegistered",
                              (CHOOSE r \in user_pos : TRUE).position)]
            ELSE IF existing # {}
            THEN [queue |-> q,
                  ret |-> Ret(FALSE, "AlreadyTaken",
                              (CHOOSE r \in existing : TRUE).user_id)]
            ELSE IF ins.ok
            THEN [queue |-> ins.rows, ret |-> Ret(TRUE, "OK", position)]
            ELSE [queue |-> q, ret |-> Ret(FALSE, "WriteError", 0)]

\* register_position that frees the caller's old row before it reports
\* AlreadyRegistered
register_position_moves(ev, q, event_id, position, user_id, username) ==
    LET event == EventRows(ev, event_id)
    IN  IF event = {}
        THEN [queue |-> q, ret |-> Ret(FALSE, "EventNotFound", 0)]
        ELSE
        LET max_pos == (CHOOSE e \in event : TRUE).max_positions
            existing == RowsAt(q, event_id, position)
            user_pos == RowsOf(q, event_id, user_id)
            row == [event_id |-> event_id, position |-> position,
                    user_id |-> user_id, username |-> username]
            ins == InsertRow(q, row)
        IN  IF position < 1 \/ position > max_pos
            THEN [queue |-> q, ret |-> Ret(FALSE, "OutOfRange", max_pos)]
            ELSE IF existing # {}
            THEN [queue |-> q,
                  ret |-> Ret(FALSE, "AlreadyTaken",
                              (CHOOSE r \in existing : TRUE).user_id)]
            ELSE IF user_pos # {}
            THEN [queue |-> q \ user_pos,
                  ret |-> Ret(FALSE, "AlreadyRegistered",
                              (CHOOSE r \in user_pos : TRUE).position)]
            ELSE IF ins.ok
            THEN [queue |-> ins.rows, ret |-> Ret(TRUE, "OK", position)]
            ELSE [queue |-> q, ret |-> Ret(FALSE, "WriteError", 0)]

\* register_position without the caller's check, writing to a table that
\* lacks UNIQUE(event_id, user_id)
register_position_twice(ev, q, event_id, position, user_id, username) ==
    LET event == EventRows(ev, event_id)
    IN  IF event = {}
        THEN [queue |-> q, ret |-> Ret(FALSE, "EventNotFound", 0)]
        ELSE
        LET max_pos == (CHOOSE e \in event : TRUE).max_positions
            existing == RowsAt(q, event_id, position)
            row == [event_id |-> event_id, position |-> position,
                    user_id |-> user_id, username |-> username]
        IN  IF position < 1 \/ position > max_pos
            THEN [queue |-> q, ret |-> Ret(FALSE, "OutOfRange", max_pos)]
            ELSE IF existing # {}
            THEN [queue |-> q,
                  ret |-> Ret(FALSE, "AlreadyTaken",
                              (CHOOSE r \in existing : TRUE).user_id)]
            ELSE [queue |-> q \cup {row}, ret |-> Ret(TRUE, "OK", position)]

register_position(ev, q, event_id, position, user_id, username) ==
    LET event == EventRows(ev, event_id)
    IN  IF event = {}
        THEN [queue |-> q, ret |-> Ret(FALSE, "EventNotFound", 0)]
        ELSE
        LET max_pos == (CHOOSE e \in event : TRUE).max_positions
            existing == RowsAt(q, event_id, position)
            user_pos == RowsOf(q, event_id, user_id)
            row == [event_id |-> event_id, position |-> position,
                    user_id |-> user_id, username |-> username]
            ins == InsertRow(q, row)
        IN  IF position < 1 \/ position > max_pos
            THEN [queue |-> q, ret |-> Ret(FALSE, "OutOfRange", max_pos)]
            ELSE IF existing # {}
            THEN [queue |-> q,
                  ret |-> Ret(FALSE, "AlreadyTaken",
                              (CHOOSE r \in existing : TRUE).user_id)]
            ELSE IF user_pos # {}
            THEN [queue |-> q,
                  ret |-> Ret(FALSE, "AlreadyRegistered",
                              (CHOOSE r \in user_pos : TRUE).position)]
            ELSE IF ins.ok
            THEN [queue |-> ins.rows, ret |-> Ret(TRUE, "OK", position)]
            ELSE [queue |-> q, ret |-> Ret(FALSE, "WriteError", 0)]

\* cancel_registration whose DELETE is never committed
cancel_registration_no_commit(q, event_id, user_id) ==
    LET hit == RowsOf(q, event_id, user_id)
    IN  [queue |-> q,
         ret |-> IF hit # {} THEN Ret(TRUE, "OK", 0)
                 ELSE Ret(FALSE, "NotRegistered", 0)]

\* cancel_registration whose DELETE has lost its event_id filter
cancel_registration_all_events(q, event_id, user_id) ==
    LET hit == RowsOf(q, event_id, user_id)
    IN  [queue |-> {r \in q : r.user_id # user_id},
         ret |-> IF hit # {} THEN Ret(TRUE, "OK", 0)
                 ELSE Ret(FALSE, "NotRegistered", 0)]

cancel_registration(q, event_id, user_id) ==
    LET hit == RowsOf(q, event_id, user_id)
    IN  [queue |-> q \ hit,
         ret |-> IF hit # {} THEN Ret(TRUE, "OK", 0)
                 ELSE Ret(FALSE, "NotRegistered", 0)]

\* swap_positions that commits what it has written when an UPDATE fails
swap_positions_no_rollback(q, event_id, user1_id, user2_id, fail) ==
    LET pos1 == RowsOf(q, event_id, user1_id)
        pos2 == RowsOf(q, event_id, user2_id)
    IN  IF pos1 = {} \/ pos2 = {}
        THEN [queue |-> q, ret |-> Ret(FALSE, "NotRegistered", 0)]
        ELSE
        LET p1 == (CHOOSE r \in pos1 : TRUE).position
            p2 == (CHOOSE r \in pos2 : TRUE).position
            u1 == UpdatePosition(q, event_id, user1_id, Sentinel)
            u2 == UpdatePosition(u1.rows, event_id, user2_id, p1)
            u3 == UpdatePosition(u2.rows, event_id, user1_id, p2)
        IN  IF fail = 1 \/ ~u1.ok
            THEN [queue |-> q, ret |-> Ret(FALSE, "Rollback", 1)]
            ELSE IF fail = 2 \/ ~u2.ok
            THEN [queue |-> u1.rows, ret |-> Ret(FALSE, "Rollback", 2)]
            ELSE IF fail = 3 \/ ~u3.ok
            THEN [queue |-> u2.rows, ret |-> Ret(FALSE, "Rollback", 3)]
            ELSE [queue |-> u3.rows, ret |-> Ret(TRUE, "OK", 0)]

\* swap_positions whose last UPDATE writes the first caller's own position
swap_positions_wrong_target(q, event_id, user1_id, user2_id, fail) ==
    LET pos1 == RowsOf(q, event_id, user1_id)
        pos2 == RowsOf(q, event_id, user2_id)
    IN  IF pos1 = {} \/ pos2 = {}
        THEN [queue |-> q, ret |-> Ret(FALSE, "NotRegistered", 0)]
        ELSE
        LET p1 == (CHOOSE r \in pos1 : TRUE).position
            u1 == UpdatePosition(q, event_id, user1_id, Sentinel)
            u2 == UpdatePosition(u1.rows, event_id, user2_id, p1)
            u3 == UpdatePosition(u2.rows, event_id, user1_id, p1)
        IN  IF fail = 1 \/ ~u1.ok
            THEN [queue |-> q, ret |-> Ret(FALSE, "Rollback", 1)]
            ELSE IF fail = 2 \/ ~u2.ok
            THEN [queue |-> q, ret |-> Ret(FALSE, "Rollback", 2)]
            ELSE IF fail = 3 \/ ~u3.ok
            THEN [queue |-> q, ret |-> Ret(FALSE, "Rollback", 3)]
            ELSE [queue |-> u3.rows, ret |-> Ret(TRUE, "OK", 0)]

\* swap_positions without its third UPDATE
swap_positions_two_updates(q, event_id, user1_id, user2_id, fail) ==
    LET pos1 == RowsOf(q, event_id, user1_id)
        pos2 == RowsOf(q, event_id, user2_id)
    IN  IF pos1 = {} \/ pos2 = {}
        THEN [queue |-> q, ret |-> Ret(FALSE, "NotRegistered", 0)]
        ELSE
        LET p1 == (CHOOSE r \in pos1 : TRUE).position
            u1 == UpdatePosition(q, event_id, user1_id, Sentinel)
            u2 == UpdatePosition(u1.rows, event_id, user2_id, p1)
        IN  IF fail = 1 \/ ~u1.ok
            THEN [queue |-> q, ret |-> Ret(FALSE, "Rollback", 1)]
            ELSE IF fail = 2 \/ ~u2.ok
            THEN [queue |-> q, ret |-> Ret(FALSE, "Rollback", 2)]
            ELSE IF fail = 3
            THEN [queue |-> q, ret |-> Ret(FALSE, "Rollback", 3)]
            ELSE [queue |-> u2.rows, ret |-> Ret(TRUE, "OK", 0)]

\* `fail` is the number of the UPDATE (1..3) at which the store raises an
\* error other than a constraint violation (a locked or unwritable
\* database); 0 is a run without such an error.  An UPDATE that violates a
\* constraint raises too.  The bare `except:` answers both with
\* conn.rollback(), which leaves the rows `q` of the last commit.
swap_positions(q, event_id, user1_id, user2_id, fail) ==
    LET pos1 == RowsOf(q, event_id, user1_id)
        pos2 == RowsOf(q, event_id, user2_id)
    IN  IF pos1 = {} \/ pos2 = {}
        THEN [queue |-> q, ret |-> Ret(FALSE, "NotRegistered", 0)]
        ELSE
        LET p1 == (CHOOSE r \in pos1 : TRUE).position
            p2 == (CHOOSE r \in pos2 : TRUE).position
            u1 == UpdatePosition(q, event_id, user1_id, Sentinel)
            u2 == UpdatePosition(u1.rows, event_id, user2_id, p1)
            u3 == UpdatePosition(u2.rows, event_id, user1_id, p2)
        IN  IF fail = 1 \/ ~u1.ok
            THEN [queue |-> q, ret |-> Ret(FALSE, "Rollback", 1)]
            ELSE IF fail = 2 \/ ~u2.ok
            THEN [queue |-> q, ret |-> Ret(FALSE, "Rollback", 2)]
            ELSE IF fail = 3 \/ ~u3.ok
            THEN [queue |-> q, ret |-> Ret(FALSE, "Rollback", 3)]
            ELSE [queue |-> u3.rows, ret |-> Ret(TRUE, "OK", 0)]

\* admin_register without the DELETE of the caller's own row
admin_register_no_release(ev, q, event_id, position, user_id, username) ==
    LET event == EventRows(ev, event_id)
    IN  IF event = {}
        THEN [queue |-> q, ret |-> Ret(FALSE, "EventNotFound", 0)]
        ELSE
        LET max_pos == (CHOOSE e \in event : TRUE).max_positions
            kicked == RowsAt(q, event_id, position)
            q2 == q \ kicked
            row == [event_id |-> event_id, position |-> position,
                    user_id |-> user_id, username |-> username]
            ins == InsertRow(q2, row)
        IN  IF position < 1 \/ position > max_pos
            THEN [queue |-> q, ret |-> Ret(FALSE, "OutOfRange", max_pos)]
            ELSE IF ins.ok
            THEN [queue |-> ins.rows,
                  ret |-> Ret(TRUE, "OK",
                              IF kicked = {} THEN 0
                              ELSE (CHOOSE r \in kicked : TRUE).user_id)]
            ELSE [queue |-> q, ret |-> Ret(FALSE, "WriteError", 0)]

\* admin_register whose DELETE of the caller's own row runs, and is
\* committed, ahead of the range check
admin_register_delete_first(ev, q, event_id, position, user_id, username) ==
    LET event == EventRows(ev, event_id)
    IN  IF event = {}
        THEN [queue |-> q, ret |-> Ret(FALSE, "EventNotFound", 0)]
        ELSE
        LET max_pos == (CHOOSE e \in event : TRUE).max_positions
            q1 == q \ RowsOf(q, event_id, user_id)
            kicked == RowsAt(q1, event_id, position)
            q2 == q1 \ kicked
            row == [event_id |-> event_id, position |-> position,
                    user_id |-> user_id, username |-> username]
            ins == InsertRow(q2, row)
        IN  IF position < 1 \/ position > max_pos
            THEN [queue |-> q1, ret |-> Ret(FALSE, "OutOfRange", max_pos)]
            ELSE IF ins.ok
            THEN [queue |-> ins.rows,
                  ret |-> Ret(TRUE, "OK",
                              IF kicked = {} THEN 0
                              ELSE (CHOOSE r \in kicked : TRUE).user_id)]
            ELSE [queue |-> q, ret |-> Ret(FALSE, "WriteError", 0)]

\* admin_register without the DELETE of the position's holder, writing to a
\* table that lacks UNIQUE(event_id, position)
admin_register_no_displace(ev, q, event_id, position, user_id, username) ==
    LET event == EventRows(ev, event_id)
    IN  IF event = {}
        THEN [queue |-> q, ret |-> Ret(FALSE, "EventNotFound", 0)]
        ELSE
        LET max_pos == (CHOOSE e \in event : TRUE).max_positions
            q1 == q \ RowsOf(q, event_id, user_id)
            row == [event_id |-> event_id, position |-> position,
                    user_id |-> user_id, username |-> username]
        IN  IF position < 1 \/ position > max_pos
            THEN [queue |-> q, ret |-> Ret(FALSE, "OutOfRange", max_pos)]
            ELSE [queue |-> q1 \cup {row}, ret |-> Ret(TRUE, "OK", 0)]

admin_register(ev, q, event_id, position, user_id, username) ==
    LET event == EventRows(ev, event_id)
    IN  IF event = {}
        THEN [queue |-> q, ret |-> Ret(FALSE, "EventNotFound", 0)]
        ELSE
        LET max_pos == (CHOOSE e \in event : TRUE).max_positions
            q1 == q \ RowsOf(q, event_id, user_id)
            kicked == RowsAt(q1, event_id, position)
            q2 == q1 \ kicked
            row == [event_id |-> event_id, position |-> position,
                    user_id |-> user_id, username |-> username]
            ins == InsertRow(q2, row)
        IN  IF position < 1 \/ position > max_pos
            THEN [queue |-> q, ret |-> Ret(FALSE, "OutOfRange", max_pos)]
            ELSE IF ins.ok
            THEN [queue |-> ins.rows,
                  ret |-> Ret(TRUE, "OK",
                              IF kicked = {} THEN 0
                              ELSE (CHOOSE r \in kicked : TRUE).user_id)]
            ELSE [queue |-> q, ret |-> Ret(FALSE, "WriteError", 0)]

\* clear_queue whose DELETE has lost its event_id filter
clear_queue_all_events(q, event_id) ==
    [queue |-> {},
     ret |-> Ret(TRUE, "OK", Cardinality(RowsIn(q, event_id)))]

clear_queue(q, event_id) ==
    [queue |-> q \ RowsIn(q, event_id),
     ret |-> Ret(TRUE, "OK", Cardinality(RowsIn(q, event_id)))]

\* rows of the event whose stored handle equals `username` up to letter case
RowsNamed(q, event_id, username) ==
    {r \in q : r.event_id = event_id /\ Lower(r.username) = Lower(username)}

\* `fetched` is the row cursor.fetchone() returns, any of the matching rows
kick_user(q, event_id, username, fetched) ==
    LET hit == RowsNamed(q, event_id, username)
    IN  IF hit = {}
        THEN [queue |-> q, ret |-> Ret(FALSE, "NotFound", 0)]
        ELSE [queue |-> q \ hit, ret |-> Ret(TRUE, "OK", fetched.position)]

---------------------------------------------------------------------------
(* The transport calling the catalog and the ledger, one call per step.    *)

\* the list without its last position: range(1, max_positions)
available_short(ev, q, event_id) ==
    LET event == CHOOSE e \in EventRows(ev, event_id) : TRUE
        taken_positions == {r.position : r \in RowsIn(q, event_id)}
    IN  SelectSeq([i \in 1..(event.max_positions - 1) |-> i],
                  LAMBDA i : i \notin taken_positions)

\* bot.py: [i for i in range(1, event["max_positions"] + 1)
\*          if i not in taken_positions], for an event that exists
available(ev, q, event_id) ==
    LET event == CHOOSE e \in EventRows(ev, event_id) : TRUE
        taken_positions == {r.position : r \in RowsIn(q, event_id)}
    IN  SelectSeq([i \in 1..event.max_positions |-> i],
                  LAMBDA i : i \notin taken_positions)

ProcIds == {1, 2}

\* a register_position call that has not started
NoCall == [pc |-> "idle", event_id |-> 0, position |-> 0, user_id |-> 0,
           ret |-> Ret(FALSE, "", 0)]

\* ADMIN_IDS, SUBGROUP1_IDS and SUBGROUP2_IDS of a deployment that lists
\* caller 1 as the administrator and no subgroup member
NoConfig == [admins |-> {1}, subgroup1 |-> {}, subgroup2 |-> {}]

\* FSMContext after state.clear(): no state, no data.  `keys` are the keys
\* the data holds; the fields of the absent keys are "" and 0.
NoState == [state |-> "", keys |-> {}, event_name |-> "", max_positions |-> 0,
            rename_event_id |-> 0, event_id |-> 0]

\* no entry of pending_exchanges: the value that stands for an absent key
NoRequest == [from_user_id |-> 0, event_id |-> 0]

\* pending_exchanges = {} at import: the dictionary is keyed by the user id
\* of the caller who is asked.  An entry keeps from_user_id and event_id;
\* from_username, event_name and the two positions read at request time
\* only fill message texts.
NoPending == [u \in UserIds |-> NoRequest]

\* an exchange callback (accept or decline) that is not running
\* (user_id: the caller of the callback; from_user_id: the initiator its
\* button names, read after the await by message texts only and kept as 0
\* where no property reads it; success is read by message texts only)
NoHandler == [pc |-> "idle", user_id |-> 0, from_user_id |-> 0]

NoHandlers == [i \in ProcIds |-> NoHandler]

Init ==
    /\ events = {}
    /\ nextId = 1
    /\ queue = {}
    /\ last = [op |-> "init_db", ret |-> Ret(TRUE, "OK", 0)]
    /\ procs = [i \in ProcIds |-> NoCall]
    /\ config = NoConfig
    /\ fsm = NoState
    /\ allowed = {}
    /\ pending = NoPending
    /\ handlers = NoHandlers

AddEvent ==
    \E n \in NewEvents :
        \E r \in {add_event(events, nextId, n.name, n.max_positions, 0)} :
            /\ nextId \in EventArgs
            /\ events' = r.events
            /\ nextId' = r.nextId
            /\ last' = [op |-> "add_event", ret |-> r.ret]
            /\ UNCHANGED <<queue, procs, botVars>>

DeleteEvent ==
    \E e \in EventArgs :
        \E r \in {delete_event(events, queue, e)} :
            /\ events' = r.events
            /\ queue' = r.queue
            /\ last' = [op |-> "delete_event", ret |-> r.ret]
            /\ UNCHANGED <<nextId, procs, botVars>>

Register ==
    \E e \in EventArgs, p \in PosArgs, u \in UserIds :
        \E r \in {register_position(events, queue, e, p, u, Username(u))} :
            /\ queue' = r.queue
            /\ last' = [op |-> "register_position", ret |-> r.ret]
            /\ UNCHANGED <<events, nextId, procs, botVars>>

Cancel ==
    \E e \in EventArgs, u \in UserIds :
        \E r \in {cancel_registration(queue, e, u)} :
            /\ queue' = r.queue
            /\ last' = [op |-> "cancel_registration", ret |-> r.ret]
            /\ UNCHANGED <<events, nextId, procs, botVars>>

\* the updates of swap_positions run only when both callers hold a row, so
\* only then is there an UPDATE for the store to fail at
SwapFailures(e, a, b) ==
    IF RowsOf(queue, e, a) = {} \/ RowsOf(queue, e, b) = {} THEN {0} ELSE 0..3

Swap ==
    \E e \in EventArgs, a \in UserIds, b \in UserIds :
        \E fail \in SwapFailures(e, a, b) :
            \E r \in {swap_positions(queue, e, a, b, fail)} :
                /\ queue' = r.queue
                /\ last' = [op |-> "swap_positions", ret |-> r.ret]
                /\ UNCHANGED <<events, nextId, procs, botVars>>

AdminRegister ==
    \E e \in EventArgs, p \in PosArgs, u \in UserIds :
        \E r \in {admin_register(events, queue, e, p, u, Username(u))} :
            /\ queue' = r.queue
            /\ last' = [op |-> "admin_register", ret |-> r.ret]
            /\ UNCHANGED <<events, nextId, procs, botVars>>

ClearQueue ==
    \E e \in EventArgs :
        \E r \in {clear_queue(queue, e)} :
            /\ queue' = r.queue
            /\ last' = [op |-> "clear_queue", ret |-> r.ret]
            /\ UNCHANGED <<events, nextId, procs, botVars>>

\* the rows cursor.fetchone() may return to kick_user
Fetchable(e, h) ==
    IF RowsNamed(queue, e, h) = {} THEN {[position |-> 0]}
    ELSE RowsNamed(queue, e, h)

KickUser ==
    \E e \in EventArgs, h \in Handles :
        \E fetched \in Fetchable(e, h) :
            \E r \in {kick_user(queue, e, h, fetched)} :
                /\ queue' = r.queue
                /\ last' = [op |-> "kick_user", ret |-> r.ret]
                /\ UNCHANGED <<events, nextId, procs, botVars>>

Next ==
    \/ AddEvent
    \/ DeleteEvent
    \/ Register
    \/ Cancel
    \/ Swap
    \/ AdminRegister
    \/ ClearQueue
    \/ KickUser

Spec == Init /\ [][Next]_vars

---------------------------------------------------------------------------
(* Vocabulary of the properties.                                           *)

EventExists(e) == \E ev \in events : ev.id = e

\* the rows register / admin_register write for caller u
Row(e, p, u) ==
    [event_id |-> e, position |-> p, user_id |-> u, username |-> Username(u)]

InRange(e, p) ==
    \E ev \in events : ev.id = e /\ 1 <= p /\ p <= ev.max_positions

Holders(q, e, p) == {r.user_id : r \in RowsAt(q, e, p)}

PositionsOf(q, e, u) == {r.position : r \in RowsOf(q, e, u)}

Free(q, e, p) == RowsAt(q, e, p) = {}

Unregistered(q, e, u) == RowsOf(q, e, u) = {}

LastIs(op, kind) == last.op = op /\ last.ret.kind = kind

---------------------------------------------------------------------------
(* Properties of the slot ledger.                                          *)

\* C1: in every reachable state an event has at most one queue entry for
\* any given position.
UniquePosition ==
    \A r1 \in queue, r2 \in queue :
        (r1.event_id = r2.event_id /\ r1.position = r2.position) => r1 = r2

\* an override has displaced a holder and the event keeps two or more rows
UniquePositionWitness ==
    /\ LastIs("admin_register", "OK")
    /\ last.ret.info # 0
    /\ \E e \in EventArgs : Cardinality(RowsIn(queue, e)) >= 2

\* C2: in every reachable state an event has at most one queue entry for
\* any given caller id.
UniqueCaller ==
    \A r1 \in queue, r2 \in queue :
        (r1.event_id = r2.event_id /\ r1.user_id = r2.user_id) => r1 = r2

\* a second register of a registered caller was refused, while some caller
\* holds a row in each of two events
UniqueCallerWitness ==
    /\ LastIs("register_position", "AlreadyRegistered")
    /\ \E u \in UserIds : Cardinality({r \in queue : r.user_id = u}) = 2

\* C3: every committed queue entry has 1 <= position <= capacity of its
\* event; the sentinel position swap writes is in no committed state,
\* whether the swap succeeded or failed.
PositionInRange ==
    \A r \in queue :
        /\ r.position # Sentinel
        /\ InRange(r.event_id, r.position)

\* a swap failed at its second UPDATE, after the sentinel was written
PositionInRangeWitness ==
    /\ LastIs("swap_positions", "Rollback")
    /\ last.ret.info = 2
    /\ \E e \in EventArgs : Cardinality(RowsIn(queue, e)) >= 2

\* C4: register reports the first failing check in the order event exists,
\* position within [1, capacity], position free, caller not registered,
\* naming the holder or the caller's position, and succeeds exactly when
\* all four checks pass.
RegisterCheckOrder ==
    \A e \in EventArgs, p \in PosArgs, u \in UserIds :
        LET ret == register_position(events, queue, e, p, u, Username(u)).ret
        IN  /\ ~EventExists(e) => ret.kind = "EventNotFound"
            /\ (EventExists(e) /\ ~InRange(e, p)) => ret.kind = "OutOfRange"
            /\ (InRange(e, p) /\ ~Free(queue, e, p)) =>
                   /\ ret.kind = "AlreadyTaken"
                   /\ Holders(queue, e, p) = {ret.info}
            /\ (InRange(e, p) /\ Free(queue, e, p)
                    /\ ~Unregistered(queue, e, u)) =>
                   /\ ret.kind = "AlreadyRegistered"
                   /\ PositionsOf(queue, e, u) = {ret.info}
            /\ ret.ok <=> (InRange(e, p) /\ Free(queue, e, p)
                               /\ Unregistered(queue, e, u))
            /\ ret.ok <=> ret.kind = "OK"

\* register answered AlreadyTaken in an event where every caller holds a
\* row, so the caller of that register was registered as well
RegisterCheckOrderWitness ==
    /\ LastIs("register_position", "AlreadyTaken")
    /\ events # {}
    /\ \A ev \in events, u \in UserIds : ~Unregistered(queue, ev.id, u)

\* C5: a register that returns an error leaves the queue entries of every
\* event as they were, an INSERT the store refuses included; a register
\* that succeeds adds exactly the entry (event, position, caller) and
\* changes nothing else.
RegisterEffect ==
    \A e \in EventArgs, p \in PosArgs, u \in UserIds :
        LET r == register_position(events, queue, e, p, u, Username(u))
            ins == InsertRow(queue, Row(e, p, u))
        IN  /\ ~r.ret.ok => r.queue = queue
            /\ r.ret.ok => /\ Row(e, p, u) \notin queue
                           /\ r.queue = queue \cup {Row(e, p, u)}
            /\ ~ins.ok => ins.rows = queue

\* a register succeeded while two events hold entries
RegisterEffectWitness ==
    /\ LastIs("register_position", "OK")
    /\ Cardinality({r.event_id : r \in queue}) = 2

\* C7: for an existing event, a free in-range position p and a caller with
\* no entry in the event, register, cancel, register succeed all three and
\* leave exactly one entry of the caller in the event, at p.
RegisterCancelRegister ==
    \A e \in EventArgs, p \in PosArgs, u \in UserIds :
        (InRange(e, p) /\ Free(queue, e, p) /\ Unregistered(queue, e, u)) =>
            LET r1 == register_position(events, queue, e, p, u, Username(u))
                r2 == cancel_registration(r1.queue, e, u)
                r3 == register_position(events, r2.queue, e, p, u, Username(u))
            IN  /\ r1.ret.ok /\ r2.ret.ok /\ r3.ret.ok
                /\ RowsOf(r3.queue, e, u) = {Row(e, p, u)}
                /\ r3.queue = queue \cup {Row(e, p, u)}

\* a cancel succeeded and left a position and a caller the sequence applies
\* to, next to another caller's entry
RegisterCancelRegisterWitness ==
    /\ LastIs("cancel_registration", "OK")
    /\ \E e \in EventArgs, p \in PosArgs, u \in UserIds :
           /\ InRange(e, p) /\ Free(queue, e, p) /\ Unregistered(queue, e, u)
           /\ RowsIn(queue, e) # {}

\* C8 as stated: cancel removes exactly the caller's entry when there is
\* one, after which a register by any different caller for the vacated
\* position succeeds; without an entry it returns NotRegistered and changes
\* nothing; every other entry is unchanged.
CancelFreesForAnyOther ==
    \A e \in EventArgs, u \in UserIds :
        LET hit == RowsOf(queue, e, u)
            r == cancel_registration(queue, e, u)
        IN  IF hit = {}
            THEN r.ret.kind = "NotRegistered" /\ r.queue = queue
            ELSE /\ r.ret.ok
                 /\ Cardinality(hit) = 1
                 /\ r.queue = queue \ hit
                 /\ \A v \in UserIds \ {u}, row \in hit :
                        register_position(events, r.queue, e, row.position,
                                          v, Username(v)).ret.ok

\* C8 amended: the register for the vacated position succeeds for every
\* different caller who holds no entry in the event.
CancelFreesForUnregistered ==
    \A e \in EventArgs, u \in UserIds :
        LET hit == RowsOf(queue, e, u)
            r == cancel_registration(queue, e, u)
        IN  IF hit = {}
            THEN r.ret.kind = "NotRegistered" /\ r.queue = queue
            ELSE /\ r.ret.ok
                 /\ Cardinality(hit) = 1
                 /\ r.queue = queue \ hit
                 /\ \A v \in UserIds \ {u}, row \in hit :
                        Unregistered(r.queue, e, v) =>
                            register_position(events, r.queue, e, row.position,
                                              v, Username(v)).ret.ok

\* a cancel succeeded in an event that keeps another caller's entry, while
\* a second event holds entries too
CancelFreesWitness ==
    /\ LastIs("cancel_registration", "OK")
    /\ Cardinality({r.event_id : r \in queue}) = 2
    /\ \E e \in EventArgs :
           /\ RowsIn(queue, e) # {}
           /\ \E p \in PosArgs : InRange(e, p) /\ Free(queue, e, p)

\* C9: for two distinct callers registered in an event, swap followed by
\* the same swap succeeds twice (the store raising no error) and leaves the
\* ledger as it was; whenever both swaps report success the ledger is as it
\* was.
SwapInvolution ==
    \A e \in EventArgs, a \in UserIds, b \in UserIds :
        (a # b /\ ~Unregistered(queue, e, a) /\ ~Unregistered(queue, e, b)) =>
            /\ LET r1 == swap_positions(queue, e, a, b, 0)
                   r2 == swap_positions(r1.queue, e, a, b, 0)
               IN  /\ r1.ret.ok /\ r2.ret.ok
                   /\ r1.queue # queue
                   /\ r2.queue = queue
            /\ \A f1 \in 0..3, f2 \in 0..3 :
                   LET r1 == swap_positions(queue, e, a, b, f1)
                       r2 == swap_positions(r1.queue, e, a, b, f2)
                   IN  (r1.ret.ok /\ r2.ret.ok) => r2.queue = queue

\* a swap succeeded in an event with a third caller's entry
SwapInvolutionWitness ==
    /\ LastIs("swap_positions", "OK")
    /\ \E e \in EventArgs : Cardinality(RowsIn(queue, e)) = 3

\* C10: a swap that returns success has exchanged the two positions, kept
\* the number of entries and every other entry; a swap that returns
\* failure (a caller not registered, or one of the three updates failing)
\* leaves the ledger as it was.
SwapAllOrNothing ==
    \A e \in EventArgs, a \in UserIds, b \in UserIds, fail \in 0..3 :
        LET r == swap_positions(queue, e, a, b, fail)
            mine == RowsOf(queue, e, a) \cup RowsOf(queue, e, b)
            theirs == RowsOf(r.queue, e, a) \cup RowsOf(r.queue, e, b)
        IN  /\ r.ret.ok <=> (~Unregistered(queue, e, a)
                                /\ ~Unregistered(queue, e, b) /\ fail = 0)
            /\ ~r.ret.ok => r.queue = queue
            /\ r.ret.ok =>
                   /\ PositionsOf(r.queue, e, a) = PositionsOf(queue, e, b)
                   /\ PositionsOf(r.queue, e, b) = PositionsOf(queue, e, a)
                   /\ Cardinality(r.queue) = Cardinality(queue)
                   /\ r.queue \ theirs = queue \ mine
            /\ \A row \in r.queue : row.position # Sentinel

\* a swap failed at its third UPDATE in an event with three entries
SwapAllOrNothingWitness ==
    /\ LastIs("swap_positions", "Rollback")
    /\ last.ret.info = 3
    /\ \E e \in EventArgs : Cardinality(RowsIn(queue, e)) = 3

---------------------------------------------------------------------------
(* Two register_position calls on connections of their own, one SQL        *)
(* statement per step.  The SELECTs run in autocommit mode, the INSERT is  *)
(* committed at once, so the statements of the two calls interleave freely.*)

InitConc ==
    /\ events = add_event({}, 1, "os", MaxCap, 0).events
    /\ nextId = 2
    /\ queue = {}
    /\ last = [op |-> "init_db", ret |-> Ret(TRUE, "OK", 0)]
    /\ procs = [i \in ProcIds |-> NoCall]
    /\ config = NoConfig
    /\ fsm = NoState
    /\ allowed = {}
    /\ pending = NoPending
    /\ handlers = NoHandlers

Done(i, ret) ==
    procs' = [procs EXCEPT ![i].pc = "done", ![i].ret = ret]

Goto(i, pc) == procs' = [procs EXCEPT ![i].pc = pc]

RegCall(i) ==
    \E e \in EventArgs, p \in PosArgs, u \in UserIds :
        /\ procs[i].pc = "idle"
        /\ procs' = [procs EXCEPT ![i] = [pc |-> "select_event",
                                          event_id |-> e, position |-> p,
                                          user_id |-> u,
                                          ret |-> Ret(FALSE, "", 0)]]
        /\ UNCHANGED <<events, nextId, queue, last, botVars>>

RegSelectEvent(i) ==
    LET c == procs[i]
        event == EventRows(events, c.event_id)
        max_pos == (CHOOSE e \in event : TRUE).max_positions
    IN  /\ c.pc = "select_event"
        /\ IF event = {}
           THEN Done(i, Ret(FALSE, "EventNotFound", 0))
           ELSE IF c.position < 1 \/ c.position > max_pos
           THEN Done(i, Ret(FALSE, "OutOfRange", max_pos))
           ELSE Goto(i, "select_position")
        /\ UNCHANGED <<events, nextId, queue, last, botVars>>

RegSelectPosition(i) ==
    LET c == procs[i]
        existing == RowsAt(queue, c.event_id, c.position)
    IN  /\ c.pc = "select_position"
        /\ IF existing # {}
           THEN Done(i, Ret(FALSE, "AlreadyTaken",
                           (CHOOSE r \in existing : TRUE).user_id))
           ELSE Goto(i, "select_user")
        /\ UNCHANGED <<events, nextId, queue, last, botVars>>

RegSelectUser(i) ==
    LET c == procs[i]
        user_pos == RowsOf(queue, c.event_id, c.user_id)
    IN  /\ c.pc = "select_user"
        /\ IF user_pos # {}
           THEN Done(i, Ret(FALSE, "AlreadyRegistered",
                           (CHOOSE r \in user_pos : TRUE).position))
           ELSE Goto(i, "insert")
        /\ UNCHANGED <<events, nextId, queue, last, botVars>>

RegInsert(i) ==
    LET c == procs[i]
        row == [event_id |-> c.event_id, position |-> c.position,
                user_id |-> c.user_id, username |-> Username(c.user_id)]
        ins == InsertRow(queue, row)
    IN  /\ c.pc = "insert"
        /\ queue' = ins.rows
        /\ IF ins.ok
           THEN Done(i, Ret(TRUE, "OK", c.position))
           ELSE Done(i, Ret(FALSE, "WriteError", 0))
        /\ UNCHANGED <<events, nextId, last, botVars>>

NextConc ==
    \E i \in ProcIds :
        \/ RegCall(i)
        \/ RegSelectEvent(i)
        \/ RegSelectPosition(i)
        \/ RegSelectUser(i)
        \/ RegInsert(i)

SpecConc == InitConc /\ [][NextConc]_vars

\* C6: two register calls on the same event whose statements interleave
\* never both succeed for the same position, nor for the same caller.
NoDoubleSuccess ==
    \A i \in ProcIds, j \in ProcIds :
        (/\ i # j
         /\ procs[i].pc = "done" /\ procs[i].ret.ok
         /\ procs[j].pc = "done" /\ procs[j].ret.ok
         /\ procs[i].event_id = procs[j].event_id) =>
            /\ procs[i].position # procs[j].position
            /\ procs[i].user_id # procs[j].user_id

\* both calls passed their checks for the same position and the INSERT of
\* the later one was refused
NoDoubleSuccessWitness ==
    \E i \in ProcIds, j \in ProcIds :
        /\ procs[i].pc = "done" /\ procs[i].ret.ok
        /\ procs[j].pc = "done" /\ procs[j].ret.kind = "WriteError"
        /\ procs[i].event_id = procs[j].event_id
        /\ procs[i].position = procs[j].position
        /\ procs[i].user_id # procs[j].user_id

---------------------------------------------------------------------------
(* Properties of the administrative operations of the ledger.              *)

\* C11: an override succeeds for every in-range position of a live event;
\* after it the caller holds exactly one entry in the event, at that
\* position, the previous holder of the position (if another caller) holds
\* none and is the one reported as displaced, and every other entry is
\* unchanged.
AdminOverrideEffect ==
    \A e \in EventArgs, p \in PosArgs, u \in UserIds :
        LET r == admin_register(events, queue, e, p, u, Username(u))
            held == Holders(queue, e, p) \ {u}
        IN  /\ r.ret.ok <=> InRange(e, p)
            /\ r.ret.ok =>
                   /\ RowsOf(r.queue, e, u) = {Row(e, p, u)}
                   /\ \A h \in held : /\ RowsOf(r.queue, e, h) = {}
                                      /\ r.ret.info = h
                   /\ held = {} => r.ret.info = 0
                   /\ r.queue \ {Row(e, p, u)} =
                          queue \ (RowsOf(queue, e, u) \cup RowsAt(queue, e, p))

\* an override displaced a holder and left its event with a single entry
AdminOverrideEffectWitness ==
    /\ LastIs("admin_register", "OK")
    /\ last.ret.info # 0
    /\ \E e \in EventArgs :
           /\ Cardinality(RowsIn(queue, e)) = 1
           /\ \A r \in RowsIn(queue, e) : r.user_id # last.ret.info

\* C12: an override that fails with EventNotFound or OutOfRange changes no
\* entry: the caller's existing entry and the holder of every position stay.
AdminOverrideFailureFrame ==
    \A e \in EventArgs, p \in PosArgs, u \in UserIds :
        LET r == admin_register(events, queue, e, p, u, Username(u))
        IN  /\ ~EventExists(e) => r.ret.kind = "EventNotFound"
            /\ (EventExists(e) /\ ~InRange(e, p)) => r.ret.kind = "OutOfRange"
            /\ r.ret.kind \in {"EventNotFound", "OutOfRange"} => r.queue = queue

\* an override was refused as out of range in the only event, where every
\* caller, the target of the override included, holds an entry
AdminOverrideFailureWitness ==
    /\ LastIs("admin_register", "OutOfRange")
    /\ Cardinality(events) = 1
    /\ \A ev \in events, u \in UserIds : ~Unregistered(queue, ev.id, u)

\* the number clear_queue returns and the rows it leaves, for every event
ClearReturns ==
    \A e \in EventArgs :
        LET r == clear_queue(queue, e)
        IN  /\ r.ret.info = Cardinality(RowsIn(queue, e))
            /\ RowsIn(r.queue, e) = {}
            /\ \A f \in EventArgs \ {e} : RowsIn(r.queue, f) = RowsIn(queue, f)
            /\ r.queue \subseteq queue

\* a step of clear_queue leaves the catalog as it was and removes the rows
\* of one event, as many as it reports
ClearStep ==
    last'.op = "clear_queue" =>
        /\ events' = events /\ nextId' = nextId
        /\ \E e \in EventArgs :
               /\ queue' = queue \ RowsIn(queue, e)
               /\ last'.ret.info = Cardinality(RowsIn(queue, e))

\* C14: clear returns the number of entries the event had, leaves the event
\* without entries and leaves the event record and the entries of every
\* other event unchanged.
ClearEffect == []ClearReturns /\ [][ClearStep]_vars

\* a clear removed three entries while the other event keeps its own
ClearEffectWitness ==
    /\ LastIs("clear_queue", "OK")
    /\ last.ret.info = 3
    /\ queue # {}
    /\ Cardinality(events) = 2

\* C15: every queue entry belongs to a live event; delete_event removes the
\* event with all its entries and returns true exactly when the event
\* existed; ids are not handed out again, and register, override and swap
\* on an id without event create no entry.
EntriesHaveEvent ==
    /\ \A r \in queue : EventExists(r.event_id)
    /\ \A ev \in events : ev.id < nextId
    /\ \A e \in EventArgs :
           LET d == delete_event(events, queue, e)
           IN  /\ d.ret.ok <=> EventExists(e)
               /\ EventRows(d.events, e) = {}
               /\ d.events = events \ EventRows(events, e)
               /\ d.queue = queue \ RowsIn(queue, e)
    /\ \A e \in EventArgs, p \in PosArgs, u \in UserIds, v \in UserIds :
           ~EventExists(e) =>
               /\ register_position(events, queue, e, p, u, Username(u))
                      = [queue |-> queue, ret |-> Ret(FALSE, "EventNotFound", 0)]
               /\ admin_register(events, queue, e, p, u, Username(u))
                      = [queue |-> queue, ret |-> Ret(FALSE, "EventNotFound", 0)]
               /\ swap_positions(queue, e, u, v, 0)
                      = [queue |-> queue, ret |-> Ret(FALSE, "NotRegistered", 0)]

\* an event was deleted while the other event keeps entries
EntriesHaveEventWitness ==
    /\ LastIs("delete_event", "OK")
    /\ nextId = 3
    /\ Cardinality(events) = 1
    /\ queue # {}

\* C19: the list of free positions of an event is ascending, holds no
\* position of a current entry, and with the held positions makes up
\* exactly 1..capacity.
FreePositionsExact ==
    \A e \in EventArgs :
        EventExists(e) =>
            LET free == available(events, queue, e)
                held == {r.position : r \in RowsIn(queue, e)}
                cap == (CHOOSE ev \in EventRows(events, e) : TRUE).max_positions
            IN  /\ \A i \in 1..Len(free), j \in 1..Len(free) :
                       i < j => free[i] < free[j]
                /\ \A i \in 1..Len(free) : free[i] \notin held
                /\ {free[i] : i \in 1..Len(free)} \cup held = 1..cap

\* an event whose only entry is at position 2, so the list is <<1, 3>>
FreePositionsExactWitness ==
    \E e \in EventArgs :
        /\ EventExists(e)
        /\ {r.position : r \in RowsIn(queue, e)} = {2}
        /\ available(events, queue, e) = <<1, 3>>

\* the rows and the record of every event other than `e` are in ledger `q`
\* and catalog `ev` what they are now
OthersKept(ev, q, e) ==
    \A o \in EventArgs \ {e} :
        /\ RowsIn(q, o) = RowsIn(queue, o)
        /\ EventRows(ev, o) = EventRows(events, o)

\* C34: register, cancel, swap, the administrator's override, kick and
\* clear on event E, and the deletion of event E, leave the entries and the
\* record of every other event as they were, whatever their arguments and
\* whether they succeed or fail.
OtherEventsUntouched ==
    \A e \in EventArgs :
        /\ \A p \in PosArgs, u \in UserIds :
               /\ OthersKept(events, register_position(events, queue, e, p, u,
                                 Username(u)).queue, e)
               /\ OthersKept(events, admin_register(events, queue, e, p, u,
                                 Username(u)).queue, e)
        /\ \A u \in UserIds :
               /\ OthersKept(events, cancel_registration(queue, e, u).queue, e)
               /\ \A b \in UserIds : \A fail \in SwapFailures(e, u, b) :
                      OthersKept(events,
                                 swap_positions(queue, e, u, b, fail).queue, e)
        /\ \A h \in Handles : \A fetched \in Fetchable(e, h) :
               OthersKept(events, kick_user(queue, e, h, fetched).queue, e)
        /\ OthersKept(events, clear_queue(queue, e).queue, e)
        /\ \A r \in {delete_event(events, queue, e)} :
               OthersKept(r.events, r.queue, e)

\* both events hold entries, and the call that just ended cleared, or
\* deleted, an event that held some: the other event's entries are there
OtherEventsUntouchedWitness ==
    /\ \/ LastIs("clear_queue", "OK")
       \/ LastIs("delete_event", "OK")
    /\ \E e \in EventArgs :
           /\ RowsIn(queue, e) = {}
           /\ \E o \in EventArgs \ {e} :
                  EventExists(o) /\ Cardinality(RowsIn(queue, o)) >= 2

---------------------------------------------------------------------------
(* The administrator's commands /set and /kick of bot.py, which name a     *)
(* caller by handle, next to callers registering themselves.              *)

\* the handles an administrator types after "@"
AdminHandles == {"ann", "Bob", "bob"}

\* the keywords an administrator types for the event
Keywords == {"os", "o", "xx"}

\* the substrings of the lower-cased event names of the model, for LIKE
NameParts(name) ==
    CASE name = "os" -> {"", "o", "s", "os"}
      [] name = "db" -> {"", "d", "b", "db"}
      [] OTHER -> {""}

\* the position of a name in ORDER BY name
NameRank(name) == CASE name = "db" -> 1 [] name = "os" -> 2 [] OTHER -> 3

\* is_admin that admits everybody
is_admin_open(user_id) == TRUE

is_admin(user_id) == user_id \in config.admins

\* generate_fake_id: a number derived from the lower-cased handle, here the
\* caller id 3 for "bob" and 4 for any other handle; no caller of Telegram
\* carries these ids
generate_fake_id(username) == IF Lower(username) = "bob" THEN 3 ELSE 4

\* SELECT * FROM events WHERE LOWER(name) LIKE %keyword% ORDER BY
\* created_at DESC, fetchone(): the set holding the newest match, or {}.
\* created_at is taken to grow with the id.
find_event_by_keyword(ev, keyword) ==
    LET hits == {e \in ev : Lower(keyword) \in NameParts(Lower(e.name))}
    IN  {e \in hits : \A f \in hits : f.id <= e.id}

\* the loop of cmd_admin_set over get_all_data(): events by name, rows by
\* position, the first row whose handle equals `username` up to letter
\* case; {} when there is none
KnownAs(ev, q, username) ==
    LET hits == {r \in q : /\ EventRows(ev, r.event_id) # {}
                           /\ Lower(r.username) = Lower(username)}
        rank(r) == <<NameRank((CHOOSE e \in EventRows(ev, r.event_id) :
                                   TRUE).name), r.position>>
        before(a, b) == \/ rank(a)[1] < rank(b)[1]
                        \/ rank(a)[1] = rank(b)[1] /\ rank(a)[2] <= rank(b)[2]
    IN  {r \in hits : \A s \in hits : before(r, s)}

\* cmd_admin_set with a numeric last argument
cmd_admin_set(ev, q, caller, username, keyword, position) ==
    LET event == find_event_by_keyword(ev, keyword)
        known == KnownAs(ev, q, username)
        user_id == IF known # {} THEN (CHOOSE r \in known : TRUE).user_id
                   ELSE generate_fake_id(username)
    IN  IF ~is_admin(caller)
        THEN [queue |-> q, ret |-> Ret(FALSE, "Unauthorized", 0)]
        ELSE IF event = {}
        THEN [queue |-> q, ret |-> Ret(FALSE, "EventNotFound", 0)]
        ELSE admin_register(ev, q, (CHOOSE e \in event : TRUE).id, position,
                            user_id, username)

\* cmd_admin_kick; `fetched` is the row cursor.fetchone() returns in kick_user
cmd_admin_kick(ev, q, caller, username, keyword, fetched) ==
    LET event == find_event_by_keyword(ev, keyword)
    IN  IF ~is_admin(caller)
        THEN [queue |-> q, ret |-> Ret(FALSE, "Unauthorized", 0)]
        ELSE IF event = {}
        THEN [queue |-> q, ret |-> Ret(FALSE, "EventNotFound", 0)]
        ELSE kick_user(q, (CHOOSE e \in event : TRUE).id, username, fetched)

\* the callers with a Telegram account of their own
RealIds == {1, 2}

InitAdmin ==
    /\ events = add_event({}, 1, "os", MaxCap, 0).events
    /\ nextId = 2
    /\ queue = {}
    /\ last = [op |-> "init_db", ret |-> Ret(TRUE, "OK", 0)]
    /\ procs = [i \in ProcIds |-> NoCall]
    /\ config = NoConfig
    /\ fsm = NoState
    /\ allowed = {}
    /\ pending = NoPending
    /\ handlers = NoHandlers

RegisterSelf ==
    \E e \in EventArgs, p \in PosArgs, u \in RealIds :
        \E r \in {register_position(events, queue, e, p, u, Username(u))} :
            /\ queue' = r.queue
            /\ last' = [op |-> "register_position", ret |-> r.ret]
            /\ UNCHANGED <<events, nextId, procs, botVars>>

CancelSelf ==
    \E e \in EventArgs, u \in RealIds :
        \E r \in {cancel_registration(queue, e, u)} :
            /\ queue' = r.queue
            /\ last' = [op |-> "cancel_registration", ret |-> r.ret]
            /\ UNCHANGED <<events, nextId, procs, botVars>>

CmdAdminSetBy(c) ==
    \E h \in AdminHandles, k \in Keywords, p \in PosArgs :
        \E r \in {cmd_admin_set(events, queue, c, h, k, p)} :
            /\ queue' = r.queue
            /\ last' = [op |-> "cmd_admin_set", ret |-> r.ret]
            /\ UNCHANGED <<events, nextId, procs, botVars>>

CmdAdminSet == \E c \in RealIds : CmdAdminSetBy(c)

\* the rows fetchone() may return to the kick_user call of cmd_admin_kick
FetchableFor(h, k) ==
    LET event == find_event_by_keyword(events, k)
    IN  IF event = {} THEN {[position |-> 0]}
        ELSE Fetchable((CHOOSE e \in event : TRUE).id, h)

CmdAdminKickBy(c) ==
    \E h \in AdminHandles, k \in Keywords :
        \E fetched \in FetchableFor(h, k) :
            \E r \in {cmd_admin_kick(events, queue, c, h, k, fetched)} :
                /\ queue' = r.queue
                /\ last' = [op |-> "cmd_admin_kick", ret |-> r.ret]
                /\ UNCHANGED <<events, nextId, procs, botVars>>

CmdAdminKick == \E c \in RealIds : CmdAdminKickBy(c)

NextAdmin ==
    \/ RegisterSelf
    \/ CancelSelf
    \/ CmdAdminSet
    \/ CmdAdminKick

SpecAdmin == InitAdmin /\ [][NextAdmin]_vars

\* C13 as stated: a successful kick removes the entry of exactly one
\* caller, reports the position that caller held and leaves every other
\* entry in place; a kick without a matching entry returns NotFound and
\* changes nothing.
KickRemovesOneCaller ==
    \A c \in RealIds, h \in AdminHandles, k \in Keywords :
        \A fetched \in FetchableFor(h, k) :
            LET r == cmd_admin_kick(events, queue, c, h, k, fetched)
                gone == queue \ r.queue
            IN  /\ r.queue \subseteq queue
                /\ ~r.ret.ok => gone = {}
                /\ r.ret.ok =>
                       /\ Cardinality({x.user_id : x \in gone}) = 1
                       /\ \A x \in gone : x.position = r.ret.info

---------------------------------------------------------------------------
(* The administrator's conversation of bot.py that creates, renames and    *)
(* deletes events.  `fsm` is the FSMContext of the administrator; callers  *)
(* who are no administrators never leave the empty state.                  *)

\* the capacity process_max_positions falls back to
DefaultCapacity == 30

\* texts sent as event names at creation
NameTexts == {"os", "OS"}

\* texts sent as new names of a rename
RenameTexts == {"os", "OS", " os"}

\* texts sent at the capacity step; a text message is never empty
CapacityTexts == {" ", "abc", "0", "-1", " 2 "}

\* the choices of the subgroup keyboard: subgroup_0, subgroup_1, subgroup_2
SubgroupChoices == {0, 1, 2}

\* str.strip() on the texts of the model
Strip(text) ==
    CASE text = " os" -> "os"
      [] text = " " -> ""
      [] text = " 2 " -> "2"
      [] OTHER -> text

\* whether int(text) returns; int() accepts a sign and surrounding spaces
IsInt(text) == Strip(text) \in {"0", "-1", "1", "2"}

\* int(text) where it returns
IntOf(text) ==
    CASE Strip(text) = "0" -> 0
      [] Strip(text) = "-1" -> 0 - 1
      [] Strip(text) = "1" -> 1
      [] OTHER -> 2

\* max_pos of process_max_positions
parse_max_positions(text) ==
    IF Strip(text) = "" THEN DefaultCapacity
    ELSE IF IsInt(text) THEN IntOf(text)
    ELSE DefaultCapacity

InitCatalog ==
    /\ events = {}
    /\ nextId = 1
    /\ queue = {}
    /\ last = [op |-> "init_db", ret |-> Ret(TRUE, "OK", 0)]
    /\ procs = [i \in ProcIds |-> NoCall]
    /\ config = NoConfig
    /\ fsm = NoState
    /\ allowed = {}
    /\ pending = NoPending
    /\ handlers = NoHandlers

\* /add_event, handled in every state of the conversation.  `last` is the
\* result of the latest call that writes to the database; the steps that
\* only move the conversation leave it.
\* /add_event sent by caller `c`, in the conversation of that caller
CmdAddEventBy(c) ==
    /\ IF is_admin(c)
       THEN fsm' = [fsm EXCEPT !.state = "waiting_for_event_name"]
       ELSE fsm' = fsm
    /\ UNCHANGED <<events, nextId, queue, last, procs, config, allowed, pending,
                   handlers>>

\* the conversation is the administrator's: a command of another caller
\* leaves it alone
CmdAddEvent == \E c \in RealIds : CmdAddEventBy(c)

\* process_event_name that inserts the event, with the default capacity,
\* as soon as it has the name
process_event_name_inserts(ev, nid, f, text) ==
    [events |-> add_event(ev, nid, text, DefaultCapacity, 0).events,
     nextId |-> add_event(ev, nid, text, DefaultCapacity, 0).nextId,
     fsm |-> [f EXCEPT !.state = "waiting_for_max_positions",
                       !.keys = @ \cup {"event_name"},
                       !.event_name = text]]

\* process_event_name, the handler of a text sent in state
\* waiting_for_event_name: the catalog and the conversation after it
process_event_name(ev, nid, f, text) ==
    [events |-> ev, nextId |-> nid,
     fsm |-> [f EXCEPT !.state = "waiting_for_max_positions",
                       !.keys = @ \cup {"event_name"},
                       !.event_name = text]]

ProcessEventName ==
    \E text \in NameTexts :
        \E r \in {process_event_name(events, nextId, fsm, text)} :
            /\ fsm.state = "waiting_for_event_name"
            /\ events' = r.events
            /\ nextId' = r.nextId
            /\ fsm' = r.fsm
            /\ UNCHANGED <<queue, last, procs, config, allowed, pending,
                           handlers>>

\* a text of `texts` sent in state waiting_for_max_positions
ProcessMaxPositionsOf(texts) ==
    \E text \in texts :
        /\ fsm.state = "waiting_for_max_positions"
        /\ fsm' = [fsm EXCEPT !.state = "waiting_for_subgroup",
                              !.keys = @ \cup {"max_positions"},
                              !.max_positions = parse_max_positions(text)]
        /\ UNCHANGED <<events, nextId, queue, last, procs, config, allowed, pending,
                     handlers>>

ProcessMaxPositions == ProcessMaxPositionsOf(CapacityTexts)

\* the subgroup button, handled in every state; data["event_name"] and
\* data["max_positions"] raise KeyError when the key is absent, which ends
\* the handler with nothing changed
ProcessSubgroupOf(choices) ==
    \E subgroup \in choices :
        IF {"event_name", "max_positions"} \subseteq fsm.keys
        THEN \E r \in {add_event(events, nextId, fsm.event_name,
                                 fsm.max_positions, subgroup)} :
                 /\ nextId \in EventArgs
                 /\ events' = r.events
                 /\ nextId' = r.nextId
                 /\ fsm' = NoState
                 /\ last' = [op |-> "add_event", ret |-> r.ret]
                 /\ UNCHANGED <<queue, procs, config, allowed, pending,
                     handlers>>
        ELSE UNCHANGED vars

ProcessSubgroup == ProcessSubgroupOf(SubgroupChoices)

\* the rename button of an event the keyboard has shown, live or deleted
\* since: the state is set before event['name'] is read, so a button of an
\* event that is gone leaves the conversation waiting as well
CallbackRenameBy(c, e) ==
    /\ e < nextId
    /\ IF is_admin(c)
       THEN fsm' = [fsm EXCEPT !.state = "waiting_for_new_name",
                               !.keys = @ \cup {"rename_event_id"},
                               !.rename_event_id = e]
       ELSE fsm' = fsm
    /\ UNCHANGED <<events, nextId, queue, last, procs, config, allowed, pending,
                   handlers>>

CallbackRename == \E c \in RealIds, e \in EventArgs : CallbackRenameBy(c, e)

\* the result carries the id the rename was for
ProcessNewName ==
    \E text \in RenameTexts :
        /\ fsm.state = "waiting_for_new_name"
        /\ fsm' = NoState
        /\ IF fsm.rename_event_id = 0
           THEN UNCHANGED <<events, last>>
           ELSE \E r \in {rename_event(events, fsm.rename_event_id,
                                       Strip(text))} :
                    /\ events' = r.events
                    /\ last' = [op |-> "rename_event",
                                ret |-> [r.ret EXCEPT
                                            !.info = fsm.rename_event_id]]
        /\ UNCHANGED <<nextId, queue, procs, config, allowed, pending,
                     handlers>>

\* the delete button, handled in every state of the conversation
CallbackDeleteBy(c, e) ==
    \E r \in {delete_event(events, queue, e)} :
        /\ e < nextId
        /\ IF is_admin(c) /\ EventExists(e)
           THEN /\ events' = r.events
                /\ queue' = r.queue
                /\ last' = [op |-> "delete_event", ret |-> r.ret]
           ELSE UNCHANGED <<events, queue, last>>
        /\ UNCHANGED <<nextId, procs, botVars>>

CallbackDelete == \E c \in RealIds, e \in EventArgs : CallbackDeleteBy(c, e)

\* callback_back that leaves the state with set_state(None), which keeps
\* the data
callback_back_keeps_data(ev, q, f) ==
    [events |-> ev, queue |-> q, fsm |-> [f EXCEPT !.state = ""]]

\* callback_back, the handler of the back button in every state:
\* state.clear(), then the keyboard of get_events() is shown
callback_back(ev, q, f) ==
    [events |-> ev, queue |-> q, fsm |-> NoState]

\* the back button
CallbackBack ==
    \E r \in {callback_back(events, queue, fsm)} :
        /\ events' = r.events
        /\ queue' = r.queue
        /\ fsm' = r.fsm
        /\ UNCHANGED <<nextId, last, procs, config, allowed, pending,
                       handlers>>

NextCatalog ==
    \/ CmdAddEvent
    \/ ProcessEventName
    \/ ProcessMaxPositions
    \/ ProcessSubgroup
    \/ CallbackRename
    \/ ProcessNewName
    \/ CallbackDelete
    \/ CallbackBack

SpecCatalog == InitCatalog /\ [][NextCatalog]_vars

\* C16: no two events share a name, compared exactly; add_event with a name
\* in use, and rename_event of an event to a name another event uses, fail
\* and leave the catalog unchanged.
NamesUnique ==
    /\ \A e1 \in events, e2 \in events : e1.name = e2.name => e1 = e2
    /\ \A n \in NameTexts, c \in {DefaultCapacity, 1}, g \in SubgroupChoices :
           LET r == add_event(events, nextId, n, c, g)
           IN  IF \E e \in events : e.name = n
               THEN /\ r.ret.kind = "DuplicateName"
                    /\ r.events = events /\ r.nextId = nextId
               ELSE /\ r.ret.ok
                    /\ Cardinality(r.events) = Cardinality(events) + 1
    /\ \A ev \in events, n \in RenameTexts :
           LET r == rename_event(events, ev.id, n)
           IN  IF \E e \in events \ {ev} : e.name = n
               THEN r.ret.kind = "DuplicateName" /\ r.events = events
               ELSE /\ r.ret.ok
                    /\ r.events = (events \ {ev}) \cup {[ev EXCEPT !.name = n]}

\* a rename to the other event's name was refused, while the two events
\* carry names that differ in letter case only
NamesUniqueWitness ==
    /\ LastIs("rename_event", "DuplicateName")
    /\ {e.name : e \in events} = {"os", "OS"}

\* C17 as stated: a rename for an id without event returns NotFound.
RenameMissingIsNotFound ==
    (last.op = "rename_event" /\ last.ret.info # 0
        /\ ~EventExists(last.ret.info)) => last.ret.kind = "NotFound"

\* C18 as stated: every event of the catalog has a capacity of at least 1,
\* whatever text was sent at the capacity step.
CapacityAtLeastOne ==
    \A e \in events : e.max_positions >= 1

---------------------------------------------------------------------------
(* The eligibility policy of bot.py under every configuration of the       *)
(* identity lists.                                                         *)

\* get_user_subgroup with the two tests in the other order
get_user_subgroup_second_first(user_id) ==
    IF user_id \in config.subgroup2 THEN 2
    ELSE IF user_id \in config.subgroup1 THEN 1
    ELSE 0

get_user_subgroup(user_id) ==
    IF user_id \in config.subgroup1 THEN 1
    ELSE IF user_id \in config.subgroup2 THEN 2
    ELSE 0

\* can_register_for_event that lets everybody in
can_register_for_event_open(user_id, event_subgroup) == TRUE

can_register_for_event(user_id, event_subgroup) ==
    IF event_subgroup = 0 THEN TRUE
    ELSE IF is_admin(user_id) THEN TRUE
    ELSE get_user_subgroup(user_id) = event_subgroup

\* ADMIN_IDS, SUBGROUP1_IDS and SUBGROUP2_IDS as the environment gives them
Configs == [admins : SUBSET UserIds, subgroup1 : SUBSET UserIds,
            subgroup2 : SUBSET UserIds]

InitPolicy ==
    /\ events = {}
    /\ nextId = 1
    /\ queue = {}
    /\ last = [op |-> "init_db", ret |-> Ret(TRUE, "OK", 0)]
    /\ procs = [i \in ProcIds |-> NoCall]
    /\ config \in Configs
    /\ fsm = NoState
    /\ allowed = {}
    /\ pending = NoPending
    /\ handlers = NoHandlers

CanRegister ==
    \E u \in UserIds, g \in SubgroupChoices :
        /\ last' = [op |-> "can_register_for_event",
                    ret |-> Ret(can_register_for_event(u, g), "", 0)]
        /\ UNCHANGED <<events, nextId, queue, procs, botVars>>

NextPolicy == CanRegister

SpecPolicy == InitPolicy /\ [][NextPolicy]_vars

\* the membership list of a restricted subgroup
MembersOf(g) == IF g = 1 THEN config.subgroup1 ELSE config.subgroup2

\* C20 as stated: true for every caller on an unrestricted event, true for
\* every administrator, and for another caller on a restricted event true
\* exactly when the caller is in the membership list of the event's
\* subgroup.
CanRegisterByMembership ==
    \A u \in UserIds, g \in SubgroupChoices :
        /\ g = 0 => can_register_for_event(u, g)
        /\ is_admin(u) => can_register_for_event(u, g)
        /\ (g # 0 /\ ~is_admin(u)) =>
               (can_register_for_event(u, g) <=> u \in MembersOf(g))

\* C20 amended: on an event of the second subgroup a caller listed in both
\* membership lists counts as a member of the first subgroup only.
CanRegisterBySubgroup ==
    \A u \in UserIds, g \in SubgroupChoices :
        /\ g = 0 => can_register_for_event(u, g)
        /\ is_admin(u) => can_register_for_event(u, g)
        /\ (g = 1 /\ ~is_admin(u)) =>
               (can_register_for_event(u, g) <=> u \in config.subgroup1)
        /\ (g = 2 /\ ~is_admin(u)) =>
               (can_register_for_event(u, g) <=>
                    (u \in config.subgroup2 /\ u \notin config.subgroup1))

\* the policy denied a caller under a configuration without administrators
\* that lists every caller in both subgroups
CanRegisterWitness ==
    /\ config = [admins |-> {}, subgroup1 |-> UserIds, subgroup2 |-> UserIds]
    /\ last.op = "can_register_for_event"
    /\ ~last.ret.ok

---------------------------------------------------------------------------
(* Position exchange between two callers (bot.py: /e and the two buttons   *)
(* of the request message).  pending_exchanges is a module-level dict of   *)
(* the bot process; the handlers are coroutines of one event loop, so the  *)
(* code between two awaits runs without interleaving.                      *)
(*                                                                         *)
(* Telegram calls: bot.send_message to the other caller is wrapped in      *)
(* try/except and may fail (the other caller never opened a dialog with    *)
(* the bot); message.reply, callback.answer and callback.message.edit_text *)
(* answer the caller whose update is being handled and are taken to        *)
(* return.  They are not wrapped in try/except: an exception raised by     *)
(* one of them would end the handler at that line.                         *)

\* is_allowed: an empty ALLOWED_IDS admits everybody
is_allowed(user_id) ==
    IF allowed = {} THEN TRUE
    ELSE user_id \in allowed \/ user_id \in config.admins

\* get_user_position: the positions of the caller's rows in the event
get_user_position(q, event_id, user_id) ==
    {r.position : r \in RowsOf(q, event_id, user_id)}

\* the loop of cmd_exchange over get_queue(event_id), which is ordered by
\* position: the first row whose handle equals `target_username` up to
\* letter case; {} when there is none
target_user(q, event_id, target_username) ==
    LET hits == {r \in RowsIn(q, event_id) :
                     Lower(r.username) = Lower(target_username)}
    IN  {r \in hits : \A s \in hits : r.position <= s.position}

\* cmd_exchange that looks for the target before it looks at the caller's
\* own registration
cmd_exchange_target_first(ev, q, pend, caller, target_username, keyword) ==
    LET event == find_event_by_keyword(ev, keyword)
        id == (CHOOSE e \in event : TRUE).id
        my_position == get_user_position(q, id, caller)
        target == target_user(q, id, target_username)
        t == CHOOSE r \in target : TRUE
    IN  IF ~is_allowed(caller)
        THEN [queue |-> q, pending |-> pend, ret |-> Ret(FALSE, "NotAllowed", 0)]
        ELSE IF event = {}
        THEN [queue |-> q, pending |-> pend, ret |-> Ret(FALSE, "EventNotFound", 0)]
        ELSE IF target = {}
        THEN [queue |-> q, pending |-> pend,
              ret |-> Ret(FALSE, "TargetNotRegistered", 0)]
        ELSE IF t.user_id = caller
        THEN [queue |-> q, pending |-> pend, ret |-> Ret(FALSE, "SelfExchange", 0)]
        ELSE IF my_position = {}
        THEN [queue |-> q, pending |-> pend,
              ret |-> Ret(FALSE, "InitiatorNotRegistered", 0)]
        ELSE [queue |-> q, pending |-> [pend EXCEPT ![t.user_id] =
                  [from_user_id |-> caller, event_id |-> id]],
              ret |-> Ret(TRUE, "OK", t.user_id)]

\* cmd_exchange with "@target_username keyword" as its arguments: the
\* ledger and the dictionary after the handler and its answer (info: the user id the
\* request is stored under).  The request is stored before the message to
\* the target is sent, and stays whether or not the message is delivered.
cmd_exchange(ev, q, pend, caller, target_username, keyword) ==
    LET event == find_event_by_keyword(ev, keyword)
        id == (CHOOSE e \in event : TRUE).id
        my_position == get_user_position(q, id, caller)
        target == target_user(q, id, target_username)
        t == CHOOSE r \in target : TRUE
    IN  IF ~is_allowed(caller)
        THEN [queue |-> q, pending |-> pend, ret |-> Ret(FALSE, "NotAllowed", 0)]
        ELSE IF event = {}
        THEN [queue |-> q, pending |-> pend, ret |-> Ret(FALSE, "EventNotFound", 0)]
        ELSE IF my_position = {}
        THEN [queue |-> q, pending |-> pend,
              ret |-> Ret(FALSE, "InitiatorNotRegistered", 0)]
        ELSE IF target = {}
        THEN [queue |-> q, pending |-> pend,
              ret |-> Ret(FALSE, "TargetNotRegistered", 0)]
        ELSE IF t.user_id = caller
        THEN [queue |-> q, pending |-> pend, ret |-> Ret(FALSE, "SelfExchange", 0)]
        ELSE [queue |-> q, pending |-> [pend EXCEPT ![t.user_id] =
                  [from_user_id |-> caller, event_id |-> id]],
              ret |-> Ret(TRUE, "OK", t.user_id)]

\* `not exchange or exchange["from_user_id"] != from_user_id` of the two
\* callbacks, for the caller `user_id` of a button that names `from_user_id`
stale(pend, user_id, from_user_id) ==
    \/ pend[user_id] = NoRequest
    \/ pend[user_id].from_user_id # from_user_id

\* del pending_exchanges[user_id]; on a missing key the statement raises
\* KeyError and the dictionary is as before
forget(pend, user_id) == [pend EXCEPT ![user_id] = NoRequest]

\* the failures a swap_positions call on the request of `user_id` may meet
ExchangeFailures(q, pend, user_id) ==
    LET x == pend[user_id]
    IN  IF \/ RowsOf(q, x.event_id, x.from_user_id) = {}
           \/ RowsOf(q, x.event_id, user_id) = {}
        THEN {0} ELSE 0..3

\* callback_exchange_accept that takes any request stored for the caller,
\* whoever the button names
callback_exchange_accept_any(q, pend, user_id, from_user_id, fail, delivered) ==
    IF pend[user_id] = NoRequest
    THEN [queue |-> q, pending |-> pend, ret |-> Ret(FALSE, "Stale", 0)]
    ELSE LET s == swap_positions(q, pend[user_id].event_id,
                                 pend[user_id].from_user_id, user_id, fail)
         IN  [queue |-> s.queue, pending |-> forget(pend, user_id),
              ret |-> s.ret]

\* callback_exchange_accept that keeps the request after the swap
callback_exchange_accept_keep(q, pend, user_id, from_user_id, fail, delivered) ==
    IF stale(pend, user_id, from_user_id)
    THEN [queue |-> q, pending |-> pend, ret |-> Ret(FALSE, "Stale", 0)]
    ELSE LET s == swap_positions(q, pend[user_id].event_id, from_user_id,
                                 user_id, fail)
         IN  [queue |-> s.queue, pending |-> pend, ret |-> s.ret]

\* callback_exchange_accept whose notification is sent outside try/except:
\* a failed delivery ends the handler before the del statement
callback_exchange_accept_raise(q, pend, user_id, from_user_id, fail, delivered) ==
    IF stale(pend, user_id, from_user_id)
    THEN [queue |-> q, pending |-> pend, ret |-> Ret(FALSE, "Stale", 0)]
    ELSE LET s == swap_positions(q, pend[user_id].event_id, from_user_id,
                                 user_id, fail)
         IN  [queue |-> s.queue,
              pending |-> IF s.ret.ok /\ ~delivered THEN pend
                          ELSE forget(pend, user_id),
              ret |-> s.ret]

\* callback_exchange_accept run to its end by caller `user_id` on a button
\* that names `from_user_id`: the staleness check, swap_positions (which
\* meets failure `fail`), the notification of the initiator (sent only
\* after a swap, `delivered` or not) and the del statement
callback_exchange_accept(q, pend, user_id, from_user_id, fail, delivered) ==
    IF stale(pend, user_id, from_user_id)
    THEN [queue |-> q, pending |-> pend, ret |-> Ret(FALSE, "Stale", 0)]
    ELSE LET s == swap_positions(q, pend[user_id].event_id, from_user_id,
                                 user_id, fail)
         IN  [queue |-> s.queue, pending |-> forget(pend, user_id),
              ret |-> s.ret]

\* callback_exchange_decline that forgets the request only when the
\* initiator was notified
callback_exchange_decline_raise(q, pend, user_id, from_user_id, delivered) ==
    IF stale(pend, user_id, from_user_id)
    THEN [queue |-> q, pending |-> pend, ret |-> Ret(FALSE, "Stale", 0)]
    ELSE [queue |-> q,
          pending |-> IF delivered THEN forget(pend, user_id) ELSE pend,
          ret |-> Ret(TRUE, "Declined", 0)]

\* callback_exchange_decline that drops the caller's request before it
\* checks which initiator the button names
callback_exchange_decline_any(q, pend, user_id, from_user_id, delivered) ==
    IF stale(pend, user_id, from_user_id)
    THEN [queue |-> q, pending |-> forget(pend, user_id),
          ret |-> Ret(FALSE, "Stale", 0)]
    ELSE [queue |-> q, pending |-> forget(pend, user_id),
          ret |-> Ret(TRUE, "Declined", 0)]

\* callback_exchange_decline run to its end: the staleness check, the
\* notification of the initiator (`delivered` or not) and the del statement;
\* no database call
callback_exchange_decline(q, pend, user_id, from_user_id, delivered) ==
    IF stale(pend, user_id, from_user_id)
    THEN [queue |-> q, pending |-> pend, ret |-> Ret(FALSE, "Stale", 0)]
    ELSE [queue |-> q, pending |-> forget(pend, user_id),
          ret |-> Ret(TRUE, "Declined", 0)]

\* one event with a position less than there are callers, nobody
\* registered, no request
InitExchange ==
    /\ events = add_event({}, 1, "os", MaxCap - 1, 0).events
    /\ nextId = 2
    /\ queue = {}
    /\ last = [op |-> "init_db", ret |-> Ret(TRUE, "OK", 0)]
    /\ procs = [i \in ProcIds |-> NoCall]
    /\ config = NoConfig
    /\ fsm = NoState
    /\ allowed = {}
    /\ pending = NoPending
    /\ handlers = NoHandlers

\* the keywords typed after the handle: one that names the event and one
\* that names none
EventWords == {"os", "xx"}

CmdExchange ==
    \E c \in UserIds, h \in Handles, k \in EventWords :
        \E r \in {cmd_exchange(events, queue, pending, c, h, k)} :
            /\ queue' = r.queue
            /\ pending' = r.pending
            /\ last' = [op |-> "cmd_exchange", ret |-> r.ret]
            /\ UNCHANGED <<events, nextId, procs, config, fsm, allowed,
                           handlers>>

\* callback_exchange_accept up to its first await after the swap: the
\* caller `u` presses the button of a request message that names `f`;
\* `locals`: whether the suspended handler is told apart by `f`
AcceptBeginWith(i, locals) ==
    /\ handlers[i].pc = "idle"
    /\ \E u \in UserIds : \E f \in UserIds \ {u} :
        IF stale(pending, u, f)
        THEN /\ last' = [op |-> "callback_exchange_accept",
                         ret |-> Ret(FALSE, "Stale", 0)]
             /\ UNCHANGED <<events, nextId, queue, procs, botVars>>
        ELSE \E fail \in ExchangeFailures(queue, pending, u) :
                 \E s \in {swap_positions(queue, pending[u].event_id, f, u,
                                          fail)} :
                     /\ queue' = s.queue
                     /\ handlers' = [handlers EXCEPT ![i] =
                            [pc |-> "accept_reply", user_id |-> u,
                             from_user_id |-> IF locals THEN f ELSE 0]]
                     /\ last' = [op |-> "callback_exchange_accept",
                                 ret |-> s.ret]
                     /\ UNCHANGED <<events, nextId, procs, config, fsm,
                                    allowed, pending>>

AcceptBegin(i) == AcceptBeginWith(i, FALSE)

\* the rest of callback_exchange_accept: the edited message, after a swap
\* the notification of the initiator (delivered or not), and the del
\* statement
AcceptEnd(i) ==
    /\ handlers[i].pc = "accept_reply"
    /\ \E delivered \in BOOLEAN :
        /\ pending' = forget(pending, handlers[i].user_id)
        /\ handlers' = [handlers EXCEPT ![i] = NoHandler]
        /\ UNCHANGED <<events, nextId, queue, last, procs, config, fsm,
                       allowed>>

\* callback_exchange_decline up to its first await
DeclineBeginWith(i, locals) ==
    /\ handlers[i].pc = "idle"
    /\ \E u \in UserIds : \E f \in UserIds \ {u} :
        IF stale(pending, u, f)
        THEN /\ last' = [op |-> "callback_exchange_decline",
                         ret |-> Ret(FALSE, "Stale", 0)]
             /\ UNCHANGED <<events, nextId, queue, procs, botVars>>
        ELSE /\ handlers' = [handlers EXCEPT ![i] =
                    [pc |-> "decline_reply", user_id |-> u,
                     from_user_id |-> IF locals THEN f ELSE 0]]
             /\ last' = [op |-> "callback_exchange_decline",
                         ret |-> Ret(TRUE, "Declined", 0)]
             /\ UNCHANGED <<events, nextId, queue, procs, config, fsm,
                            allowed, pending>>

DeclineBegin(i) == DeclineBeginWith(i, FALSE)

\* the rest of callback_exchange_decline: the edited message, the
\* notification of the initiator (delivered or not), and the del statement
DeclineEnd(i) ==
    /\ handlers[i].pc = "decline_reply"
    /\ \E delivered \in BOOLEAN :
        /\ pending' = forget(pending, handlers[i].user_id)
        /\ handlers' = [handlers EXCEPT ![i] = NoHandler]
        /\ UNCHANGED <<events, nextId, queue, last, procs, config, fsm,
                       allowed>>

\* the exchange callbacks that may be suspended at the same time
Clicks == {1}

NextExchange ==
    \/ Register
    \/ Cancel
    \/ CmdExchange
    \/ \E i \in Clicks : AcceptBegin(i)
    \/ \E i \in Clicks : AcceptEnd(i)
    \/ \E i \in Clicks : DeclineBegin(i)
    \/ \E i \in Clicks : DeclineEnd(i)

SpecExchange == InitExchange /\ [][NextExchange]_vars

---------------------------------------------------------------------------
(* Claims about the exchange of positions.                                 *)

\* the event a keyword of /e resolves to, as a set: the newest event whose
\* name has the keyword as a part
Resolved(k) == find_event_by_keyword(events, k)

\* the rows of event `e` a handle typed after "@" names, up to letter case
Named(e, h) ==
    {r \in queue : r.event_id = e /\ Lower(r.username) = Lower(h)}

\* the row /e takes for the handle: the one of the lowest position
Target(e, h) ==
    {r \in Named(e, h) : \A s \in Named(e, h) : r.position <= s.position}

\* the request of initiator `a` for event `e`
Request(a, e) == [from_user_id |-> a, event_id |-> e]

\* C27: a request for exchange on an event that exists fails with
\* InitiatorNotRegistered when the initiator holds no position in the
\* event, else with TargetNotRegistered when no row of the event carries
\* the target's handle, else with SelfExchange when the row found is the
\* initiator's own, and a failed request leaves the pending requests as
\* they were; otherwise the request is stored under the target, every other
\* pending request stays, and in every case the ledger is as before.
RequestChecksInOrder ==
    \A c \in UserIds, h \in Handles, k \in EventWords :
        \A ev \in Resolved(k) :
            \A r \in {cmd_exchange(events, queue, pending, c, h, k)},
               registered \in {\E x \in queue :
                                   x.event_id = ev.id /\ x.user_id = c},
               found \in {Target(ev.id, h)} :
                /\ r.queue = queue
                /\ ~registered =>
                       /\ r.ret = Ret(FALSE, "InitiatorNotRegistered", 0)
                       /\ r.pending = pending
                /\ registered /\ found = {} =>
                       /\ r.ret = Ret(FALSE, "TargetNotRegistered", 0)
                       /\ r.pending = pending
                /\ \A t \in found :
                       /\ registered /\ t.user_id = c =>
                              /\ r.ret = Ret(FALSE, "SelfExchange", 0)
                              /\ r.pending = pending
                       /\ registered /\ t.user_id # c =>
                              /\ r.ret = Ret(TRUE, "OK", t.user_id)
                              /\ r.pending[t.user_id] = Request(c, ev.id)
                              /\ \A u \in UserIds \ {t.user_id} :
                                     r.pending[u] = pending[u]

\* a request was stored by an initiator who holds a position, for a target
\* who holds another
RequestStoredWitness ==
    /\ last = [op |-> "cmd_exchange", ret |-> Ret(TRUE, "OK", 1)]
    /\ pending[1] = Request(2, 1)
    /\ \E x \in queue : x.event_id = 1 /\ x.user_id = 2
    /\ \E x \in queue : x.event_id = 1 /\ x.user_id = 1

\* C25: for every caller and every initiator a button may name, when no
\* request is pending for the caller or the pending request is another
\* initiator's, accept and decline answer Stale; and whenever they answer
\* Stale the ledger and every pending request (another initiator's
\* included) are as before.
StaleChangesNothing ==
    \A u \in UserIds, f \in UserIds, d \in BOOLEAN :
        \A fail \in ExchangeFailures(queue, pending, u) :
        \A a \in {callback_exchange_accept(queue, pending, u, f, fail, d)},
           x \in {callback_exchange_decline(queue, pending, u, f, d)} :
            /\ (pending[u] = NoRequest \/ pending[u].from_user_id # f) =>
                   /\ a.ret.kind = "Stale"
                   /\ x.ret.kind = "Stale"
            /\ a.ret.kind = "Stale" =>
                   ~a.ret.ok /\ a.queue = queue /\ a.pending = pending
            /\ x.ret.kind = "Stale" =>
                   ~x.ret.ok /\ x.queue = queue /\ x.pending = pending

\* a click was answered Stale while a request was pending for every caller:
\* the button named another initiator than the pending one
StaleOtherInitiatorWitness ==
    /\ last.op \in {"callback_exchange_accept", "callback_exchange_decline"}
    /\ last.ret.kind = "Stale"
    /\ \A u \in UserIds : pending[u] # NoRequest

\* the position caller `u` holds in event `e` of ledger `q` (0: none)
PositionIn(q, e, u) ==
    IF \E r \in q : r.event_id = e /\ r.user_id = u
    THEN (CHOOSE r \in q : r.event_id = e /\ r.user_id = u).position
    ELSE 0

SecondAcceptIsStale ==
    \A u \in UserIds, f \in UserIds, d \in BOOLEAN :
        \A fail \in ExchangeFailures(queue, pending, u) :
            \A r1 \in {callback_exchange_accept(queue, pending, u, f, fail,
                                                d)} :
            \A r2 \in {callback_exchange_accept(r1.queue, r1.pending, u, f,
                                                0, d)} :
                r1.ret.kind # "Stale"
                => /\ r2.ret = Ret(FALSE, "Stale", 0)
                   /\ r2.queue = r1.queue
                   /\ r2.pending = r1.pending

\* a click on an accept button was answered Stale after the exchange was
\* done: two entries, no request pending, no callback suspended
SecondAcceptWitness ==
    /\ last = [op |-> "callback_exchange_accept",
               ret |-> Ret(FALSE, "Stale", 0)]
    /\ pending = NoPending
    /\ handlers = NoHandlers
    /\ Cardinality(RowsIn(queue, 1)) = 2

\* C28: pending_exchanges keeps one request per target.  When a request of
\* initiator A1 is pending for target T and a request of another initiator
\* A2 to T succeeds, A2's request is the one pending for T; on the result,
\* accept and decline by T on a button naming any initiator other than A2
\* (A1 among them) answer Stale, and accept by T on the button naming A2, on
\* a database that does not fail, exchanges the positions of A2 and T.
LaterRequestReplaces ==
    \A A2 \in UserIds, h \in Handles, k \in EventWords :
        \A ev \in Resolved(k) :
            \A E \in {ev.id},
               r \in {cmd_exchange(events, queue, pending, A2, h, k)} :
            \A T \in {r.ret.info} \cap UserIds :
            \A ok \in {callback_exchange_accept(r.queue, r.pending, T, A2,
                                                0, TRUE)} :
                ( /\ r.ret.ok
                  /\ pending[T] # NoRequest
                  /\ pending[T].from_user_id # A2 )
                => /\ r.pending[T] = Request(A2, E)
                   /\ \A A1 \in UserIds \ {A2} :
                          /\ callback_exchange_accept(r.queue, r.pending, T,
                                 A1, 0, TRUE).ret.kind = "Stale"
                          /\ callback_exchange_decline(r.queue, r.pending, T,
                                 A1, TRUE).ret.kind = "Stale"
                   /\ ok.ret.ok
                   /\ PositionIn(ok.queue, E, A2) = PositionIn(queue, E, T)
                   /\ PositionIn(ok.queue, E, T) = PositionIn(queue, E, A2)

\* a request of caller 2 is pending for caller 1 while callers 1 and 3 hold
\* the positions of the event, so that caller 3 can ask caller 1 next
LaterRequestWitness ==
    /\ pending[1] = Request(2, 1)
    /\ PositionIn(queue, 1, 3) # 0
    /\ PositionIn(queue, 1, 1) # 0
    /\ last.op = "register_position"

\* C26: a decline that passes the staleness check leaves no request pending
\* for its caller, keeps the requests pending for the other callers, and
\* returns the ledger with every entry of every event as it was, whether
\* the initiator's notification is delivered or not.
DeclineForgetsOnly ==
    \A u \in UserIds, f \in UserIds, d \in BOOLEAN :
        \A r \in {callback_exchange_decline(queue, pending, u, f, d)} :
            ~stale(pending, u, f)
            => /\ r.ret = Ret(TRUE, "Declined", 0)
               /\ r.pending[u] = NoRequest
               /\ \A v \in UserIds \ {u} : r.pending[v] = pending[v]
               /\ r.queue = queue

\* a decline found its request and has run to its end: the initiator and
\* the caller still hold the two positions and nothing is pending
DeclineWitness ==
    /\ last = [op |-> "callback_exchange_decline",
               ret |-> Ret(TRUE, "Declined", 0)]
    /\ handlers = NoHandlers
    /\ pending = NoPending
    /\ Cardinality(RowsIn(queue, 1)) = 2

\* C29: an accept that passes the staleness check leaves no request pending
\* for its caller when the handler ends, whether swap_positions exchanged
\* the positions, found one of the two callers without a position, or
\* rolled back at any of its statements, and whether the initiator's
\* notification is delivered or not; and the ledger the handler leaves is
\* the one swap_positions returned, whatever the delivery did.  The same
\* holds of the handler as it runs among the other handlers: the step that
\* ends a suspended accept leaves no request pending for its caller and
\* does not touch the ledger.
AcceptReturns ==
    \A u \in UserIds, f \in UserIds, d \in BOOLEAN :
        \A fail \in ExchangeFailures(queue, pending, u) :
            \A r \in {callback_exchange_accept(queue, pending, u, f, fail,
                                               d)},
               s \in {swap_positions(queue, pending[u].event_id, f, u,
                                     fail)} :
                ~stale(pending, u, f)
                => /\ r.pending[u] = NoRequest
                   /\ \A v \in UserIds \ {u} : r.pending[v] = pending[v]
                   /\ r.ret = s.ret
                   /\ r.queue = s.queue
                   /\ ~s.ret.ok => r.queue = queue

AcceptEndStep ==
    \A i \in Clicks :
        handlers[i].pc = "accept_reply" /\ handlers'[i].pc = "idle"
            => /\ pending'[handlers[i].user_id] = NoRequest
               /\ queue' = queue

AcceptAlwaysForgets == []AcceptReturns /\ [][AcceptEndStep]_vars

\* an accept whose swap failed because the initiator had cancelled has run
\* to its end, and nothing is pending
AcceptFailedWitness ==
    /\ last = [op |-> "callback_exchange_accept",
               ret |-> Ret(FALSE, "NotRegistered", 0)]
    /\ handlers = NoHandlers
    /\ pending = NoPending

---------------------------------------------------------------------------
(* Registration through the bot (bot.py: /q, the register button, the      *)
(* /start register_<id> deep link and the position step), next to the      *)
(* commands and buttons reserved to administrators.  `fsm` is the          *)
(* conversation of the caller Talker; aiogram keeps one FSMContext per     *)
(* caller and chat, and filters a state handler on the sender's own state. *)
(* A command is matched by its own handler in every state, as the command  *)
(* handlers are registered before the state handlers.                      *)

\* the caller whose conversation is followed; not an administrator
Talker == 2

\* the callers of a deployment who are not administrators
Members == {2, 3}

\* ADMIN_IDS = [1], SUBGROUP1_IDS = [2], SUBGROUP2_IDS = [3]
MemberConfig == [admins |-> {1}, subgroup1 |-> {2}, subgroup2 |-> {3}]

\* keywords typed after /q, /set, /kick and /clear
MemberWords == {"os", "db", "xx"}

\* texts sent at the position step; a text message is never empty
PositionTexts == {"abc", "0", "-1", "1", " 2 "}

\* the last argument of /q when it is a digit string (-1: there is none)
QuickPositions == {-1} \cup 0..MaxCap

\* event.get("subgroup", 0) of the event with id `event_id`, which exists
SubgroupOf(ev, event_id) ==
    (CHOOSE e \in EventRows(ev, event_id) : TRUE).subgroup

\* the register button of event `event_id`, pressed by `caller` in the
\* conversation `f`: the conversation after the handler.  A button of an
\* event that is gone raises AttributeError on event.get and changes
\* nothing; the state is set before the free positions are looked at, and
\* cleared again when there is none.
callback_register(ev, q, f, caller, event_id) ==
    IF ~is_allowed(caller) THEN f
    ELSE IF EventRows(ev, event_id) = {} THEN f
    ELSE IF ~can_register_for_event(caller, SubgroupOf(ev, event_id)) THEN f
    ELSE IF available(ev, q, event_id) = <<>> THEN NoState
    ELSE [f EXCEPT !.state = "waiting_for_position",
                   !.keys = @ \cup {"event_id"},
                   !.event_id = event_id]

\* /start register_<event_id>: the same steps, with "Событие не найдено"
\* for an event that is gone
cmd_start(ev, q, f, caller, event_id) ==
    IF ~is_allowed(caller) THEN f
    ELSE IF EventRows(ev, event_id) = {} THEN f
    ELSE IF ~can_register_for_event(caller, SubgroupOf(ev, event_id)) THEN f
    ELSE IF available(ev, q, event_id) = <<>> THEN NoState
    ELSE [f EXCEPT !.state = "waiting_for_position",
                   !.keys = @ \cup {"event_id"},
                   !.event_id = event_id]

\* process_position that leaves the conversation waiting when the
\* registration is refused
process_position_retry(ev, q, f, caller, text) ==
    IF ~is_allowed(caller) \/ "event_id" \notin f.keys
    THEN [queue |-> q, fsm |-> NoState, calls |-> <<>>,
          ret |-> Ret(FALSE, "NoEvent", 0)]
    ELSE IF ~IsInt(text)
    THEN [queue |-> q, fsm |-> f, calls |-> <<>>,
          ret |-> Ret(FALSE, "NotANumber", 0)]
    ELSE LET r == register_position(ev, q, f.event_id, IntOf(text), caller,
                                    Username(caller))
         IN  [queue |-> r.queue, fsm |-> IF r.ret.ok THEN NoState ELSE f,
              calls |-> <<[event_id |-> f.event_id,
                           position |-> IntOf(text)]>>,
              ret |-> r.ret]

\* process_position, the handler of a text sent in state
\* waiting_for_position: the ledger and the conversation after it, the
\* register_position calls it made and its answer
process_position(ev, q, f, caller, text) ==
    IF ~is_allowed(caller) \/ "event_id" \notin f.keys
    THEN [queue |-> q, fsm |-> NoState, calls |-> <<>>,
          ret |-> Ret(FALSE, "NoEvent", 0)]
    ELSE IF ~IsInt(text)
    THEN [queue |-> q, fsm |-> f, calls |-> <<>>,
          ret |-> Ret(FALSE, "NotANumber", 0)]
    ELSE LET r == register_position(ev, q, f.event_id, IntOf(text), caller,
                                    Username(caller))
         IN  [queue |-> r.queue, fsm |-> NoState,
              calls |-> <<[event_id |-> f.event_id,
                           position |-> IntOf(text)]>>,
              ret |-> r.ret]

\* /q keyword [position]: `position` is the last argument when it is a
\* digit string and -1 when there is none; without one the first free
\* position is taken.  No free position ends the handler before
\* register_position, with or without a position given.
cmd_quick_register(ev, q, caller, keyword, position) ==
    LET event == find_event_by_keyword(ev, keyword)
        id == (CHOOSE e \in event : TRUE).id
    IN  IF ~is_allowed(caller)
        THEN [queue |-> q, ret |-> Ret(FALSE, "NotAllowed", 0)]
        ELSE IF event = {}
        THEN [queue |-> q, ret |-> Ret(FALSE, "EventNotFound", 0)]
        ELSE IF ~can_register_for_event(caller, SubgroupOf(ev, id))
        THEN [queue |-> q, ret |-> Ret(FALSE, "NotEligible", 0)]
        ELSE IF available(ev, q, id) = <<>>
        THEN [queue |-> q, ret |-> Ret(FALSE, "Full", 0)]
        ELSE register_position(ev, q, id,
                 IF position = -1 THEN Head(available(ev, q, id))
                 ELSE position,
                 caller, Username(caller))

\* /clear keyword
cmd_admin_clear(ev, q, caller, keyword) ==
    LET event == find_event_by_keyword(ev, keyword)
    IN  IF ~is_admin(caller)
        THEN [queue |-> q, ret |-> Ret(FALSE, "Unauthorized", 0)]
        ELSE IF event = {}
        THEN [queue |-> q, ret |-> Ret(FALSE, "EventNotFound", 0)]
        ELSE clear_queue(q, (CHOOSE e \in event : TRUE).id)

\* the loop of cmd_create_from_schedule over the labs /schedule stored
RECURSIVE create_events(_, _, _)
create_events(ev, nid, labs) ==
    IF labs = <<>> THEN [events |-> ev, nextId |-> nid]
    ELSE IF find_event_by_keyword(ev, Head(labs).name) # {}
    THEN create_events(ev, nid, Tail(labs))
    ELSE LET r == add_event(ev, nid, Head(labs).name, DefaultCapacity,
                            Head(labs).subgroup)
         IN  create_events(r.events, r.nextId, Tail(labs))

\* /create_from_schedule with `labs` as pending_schedule.get(caller), <<>>
\* when there is none.  /schedule, which fills pending_schedule from the
\* university's timetable service, starts with the same is_admin test.
cmd_create_from_schedule(ev, nid, caller, labs) ==
    IF ~is_admin(caller) THEN [events |-> ev, nextId |-> nid]
    ELSE IF labs = <<>> THEN [events |-> ev, nextId |-> nid]
    ELSE create_events(ev, nid, labs)

\* what pending_schedule may hold for a caller
LabLists == {<<>>, <<[name |-> "db", subgroup |-> 1]>>}

\* two restricted events, "os" for subgroup 1 and "db" (one position) for
\* subgroup 2
MemberEvents ==
    add_event(add_event({}, 1, "os", MaxCap - 1, 1).events, 2, "db", 1,
              2).events

InitMember ==
    /\ events = MemberEvents
    /\ nextId = 3
    /\ queue = {}
    /\ last = [op |-> "init_db", ret |-> Ret(TRUE, "OK", 0)]
    /\ procs = [i \in ProcIds |-> NoCall]
    /\ config = MemberConfig
    /\ fsm = NoState
    /\ allowed \in {{}, {Talker}}
    /\ pending = NoPending
    /\ handlers = NoHandlers

\* the register button of an event the keyboard has shown, pressed by
\* caller `c` in the conversation of that caller
CallbackRegisterBy(c) ==
    \E e \in EventArgs :
        /\ e < nextId
        /\ fsm' = callback_register(events, queue, fsm, c, e)
        /\ UNCHANGED <<events, nextId, queue, last, procs, config, allowed,
                       pending, handlers>>

CallbackRegister == CallbackRegisterBy(Talker)

\* /start register_<id> with an id the bot has handed out
CmdStartBy(c) ==
    \E e \in EventArgs :
        /\ e < nextId
        /\ fsm' = cmd_start(events, queue, fsm, c, e)
        /\ UNCHANGED <<events, nextId, queue, last, procs, config, allowed,
                       pending, handlers>>

CmdStart == CmdStartBy(Talker)

\* a text in state waiting_for_position; `last` keeps the answer of the
\* register_position call when one was made
ProcessPositionBy(c) ==
    \E text \in PositionTexts :
        \E r \in {process_position(events, queue, fsm, c, text)} :
            /\ fsm.state = "waiting_for_position"
            /\ queue' = r.queue
            /\ fsm' = r.fsm
            /\ last' = IF r.calls = <<>> THEN last
                       ELSE [op |-> "process_position", ret |-> r.ret]
            /\ UNCHANGED <<events, nextId, procs, config, allowed, pending,
                           handlers>>

ProcessPosition == ProcessPositionBy(Talker)

CmdQuickRegister ==
    \E c \in Members, k \in MemberWords, p \in QuickPositions :
        \E r \in {cmd_quick_register(events, queue, c, k, p)} :
            /\ queue' = r.queue
            /\ last' = [op |-> "cmd_quick_register", ret |-> r.ret]
            /\ UNCHANGED <<events, nextId, procs, botVars>>

\* the callers register, cancel and leave a conversation; an administrator
\* overrides positions and deletes events meanwhile
NextMember ==
    \/ CallbackRegister
    \/ CmdStart
    \/ ProcessPosition
    \/ CmdQuickRegister
    \/ CallbackBack
    \/ CancelSelf
    \/ AdminRegister
    \/ DeleteEvent

SpecMember == InitMember /\ [][NextMember]_vars

---------------------------------------------------------------------------
(* Claims about registration through the bot and the reserved commands.    *)

\* the eligibility policy on the lists of the deployment: an event without
\* subgroup is open, an administrator may register anywhere, another caller
\* where the subgroup is the caller's (subgroup 1 when listed in both)
MayRegister(u, g) ==
    \/ g = 0
    \/ u \in config.admins
    \/ g = 1 /\ u \in config.subgroup1
    \/ g = 2 /\ u \in config.subgroup2 /\ u \notin config.subgroup1

\* the entry `r` is for an event of `ev` that its caller may register for
EligibleEntry(ev, r) ==
    \E e \in ev : e.id = r.event_id /\ MayRegister(r.user_id, e.subgroup)

\* C21: every step that adds an entry to the ledger adds an entry of a
\* caller who is eligible for the entry's event, unless the step is an
\* administrator's override; so neither /q nor the position step (entered
\* by the register button or the deep link) inserts an entry of an
\* ineligible caller.
RegisterPathsKeepPolicy ==
    [][\A r \in queue' \ queue :
           \/ EligibleEntry(events, r)
           \/ last'.op = "admin_register"]_vars

\* /q was refused for a caller outside the event's subgroup while the
\* ledger holds an entry of an ineligible caller, put there by an override
RegisterRefusedWitness ==
    /\ last = [op |-> "cmd_quick_register",
               ret |-> Ret(FALSE, "NotEligible", 0)]
    /\ \E r \in queue : ~EligibleEntry(events, r)

\* C30: in state waiting_for_position with an event in the data, a text
\* that int() accepts makes the handler call register_position once, for
\* that event and that integer, return the ledger the call returned, and
\* clear the conversation whatever the call answered; a text that int()
\* rejects makes no call and leaves the ledger and the conversation, the
\* event included, as they were.
PositionStepRegistersOnce ==
    \A text \in PositionTexts :
        \A r \in {process_position(events, queue, fsm, Talker, text)} :
            fsm.state = "waiting_for_position"
            => /\ "event_id" \in fsm.keys
               /\ IsInt(text) =>
                      /\ r.calls = <<[event_id |-> fsm.event_id,
                                      position |-> IntOf(text)]>>
                      /\ \A c \in {register_position(events, queue,
                                       fsm.event_id, IntOf(text), Talker,
                                       Username(Talker))} :
                             r.queue = c.queue /\ r.ret = c.ret
                      /\ r.fsm = NoState
               /\ ~IsInt(text) =>
                      /\ r.calls = <<>>
                      /\ r.queue = queue
                      /\ r.fsm = fsm

\* the position step ended in a refused registration (the event had been
\* deleted meanwhile) and the conversation is cleared
PositionStepRefusedWitness ==
    /\ last = [op |-> "process_position",
               ret |-> Ret(FALSE, "EventNotFound", 0)]
    /\ fsm = NoState

\* C33: /q with a position, sent by an allowed caller who may register for
\* the event the keyword finds, calls register_position with that position
\* and answers with that call's result in every state of the ledger, an
\* event without a free position included.  (The handler neither reads nor
\* writes the conversation.)
QuickRegisterCallsRegister ==
    \A c \in Members, k \in MemberWords, p \in QuickPositions \ {-1} :
        LET event == find_event_by_keyword(events, k)
            id == (CHOOSE e \in event : TRUE).id
        IN  ( /\ is_allowed(c)
              /\ event # {}
              /\ can_register_for_event(c, SubgroupOf(events, id)) )
            => cmd_quick_register(events, queue, c, k, p)
                   = register_position(events, queue, id, p, c, Username(c))

---------------------------------------------------------------------------
(* The reserved commands and buttons in the hands of callers who are not   *)
(* administrators: no administrator acts in this specification.            *)

\* an override has put caller 3 into "os" and the Talker into "db", the
\* events of the other subgroup
SeededLedger ==
    admin_register(MemberEvents,
                   admin_register(MemberEvents, {}, 1, 1, 3,
                                  Username(3)).queue,
                   2, 1, Talker, Username(Talker)).queue

InitOutsider ==
    /\ events = MemberEvents
    /\ nextId = 3
    /\ queue \in {{}, SeededLedger}
    /\ last = [op |-> "init_db", ret |-> Ret(TRUE, "OK", 0)]
    /\ procs = [i \in ProcIds |-> NoCall]
    /\ config = MemberConfig
    /\ fsm = NoState
    /\ allowed = {}
    /\ pending = NoPending
    /\ handlers = NoHandlers

OutsiderAddEvent == \E c \in Members : CmdAddEventBy(c)

OutsiderRename == \E c \in Members, e \in EventArgs : CallbackRenameBy(c, e)

OutsiderDelete == \E c \in Members, e \in EventArgs : CallbackDeleteBy(c, e)

OutsiderSet == \E c \in Members : CmdAdminSetBy(c)

OutsiderKick == \E c \in Members : CmdAdminKickBy(c)

OutsiderClear ==
    \E c \in Members, k \in MemberWords :
        \E r \in {cmd_admin_clear(events, queue, c, k)} :
            /\ queue' = r.queue
            /\ last' = [op |-> "cmd_admin_clear", ret |-> r.ret]
            /\ UNCHANGED <<events, nextId, procs, botVars>>

\* /create_from_schedule, whatever pending_schedule holds for the caller
OutsiderCreateFromSchedule ==
    \E c \in Members, labs \in LabLists :
        \E r \in {cmd_create_from_schedule(events, nextId, c, labs)} :
            /\ events' = r.events
            /\ nextId' = r.nextId
            /\ UNCHANGED <<queue, last, procs, botVars>>

\* every command and button of bot.py that leads to a call of add_event,
\* rename_event, delete_event, admin_register, kick_user or clear_queue,
\* next to the callers' own registrations and cancellations.  The text
\* steps process_event_name, process_max_positions and process_new_name
\* are filtered on the states waiting_for_event_name,
\* waiting_for_max_positions and waiting_for_new_name.
NextOutsider ==
    \/ OutsiderAddEvent
    \/ ProcessSubgroup
    \/ OutsiderRename
    \/ OutsiderDelete
    \/ OutsiderSet
    \/ OutsiderKick
    \/ OutsiderClear
    \/ OutsiderCreateFromSchedule
    \/ CallbackRegister
    \/ CmdStart
    \/ ProcessPosition
    \/ CmdQuickRegister
    \/ CallbackBack
    \/ CancelSelf

SpecOutsider == InitOutsider /\ [][NextOutsider]_vars

\* the state filters of the text steps that write the catalog never match
\* the conversation, and the data never holds what process_subgroup reads
OutsiderConversation ==
    /\ fsm.state \in {"", "waiting_for_position"}
    /\ fsm.keys \subseteq {"event_id"}

\* the catalog is not written, and a step that ends /set, /kick or /clear
\* leaves the ledger as it was
OutsiderStep ==
    /\ events' = events
    /\ nextId' = nextId
    /\ last'.op \in {"cmd_admin_set", "cmd_admin_kick", "cmd_admin_clear"}
           => queue' = queue

\* C22: while only callers outside the admin set act, through the commands
\* and buttons reserved to administrators, the subgroup button and their
\* own registration steps, in whatever state their conversation is, no
\* event is created, renamed or deleted, the conversation never enters a
\* state in which a text would create or rename an event, and /set, /kick
\* and /clear leave the ledger unchanged.
OutsidersChangeNothing == []OutsiderConversation /\ [][OutsiderStep]_vars

\* /clear was refused on an event that has entries, while the caller's
\* conversation waits for a position
OutsiderRefusedWitness ==
    /\ last = [op |-> "cmd_admin_clear", ret |-> Ret(FALSE, "Unauthorized", 0)]
    /\ fsm.state = "waiting_for_position"
    /\ RowsIn(queue, 1) # {}

---------------------------------------------------------------------------
(* Every conversation of bot.py in one FSMContext: the administrator, who  *)
(* may also register, creates and renames events and registers through    *)
(* the buttons.  state.set_state() and state.update_data() keep the data   *)
(* of an earlier flow; only state.clear() drops it.                        *)

\* one open event "os"; a second one can be created
InitFlows ==
    /\ events = add_event({}, 1, "os", MaxCap - 1, 0).events
    /\ nextId = 2
    /\ queue = {}
    /\ last = [op |-> "init_db", ret |-> Ret(TRUE, "OK", 0)]
    /\ procs = [i \in ProcIds |-> NoCall]
    /\ config = NoConfig
    /\ fsm = NoState
    /\ allowed = {}
    /\ pending = NoPending
    /\ handlers = NoHandlers

\* the capacities typed here: a number and a text that is none
FlowCapacityTexts == {" 2 ", "abc"}

\* the subgroup buttons pressed here
FlowSubgroups == {0, 1}

\* the commands, buttons and texts of the administrator, in the
\* administrator's conversation
NextFlows ==
    \/ \E c \in config.admins : CmdAddEventBy(c)
    \/ ProcessEventName
    \/ ProcessMaxPositionsOf(FlowCapacityTexts)
    \/ ProcessSubgroupOf(FlowSubgroups)
    \/ \E c \in config.admins, e \in EventArgs : CallbackRenameBy(c, e)
    \/ ProcessNewName
    \/ \E c \in config.admins, e \in EventArgs : CallbackDeleteBy(c, e)
    \/ \E c \in config.admins : CallbackRegisterBy(c)
    \/ \E c \in config.admins : CmdStartBy(c)
    \/ \E c \in config.admins : ProcessPositionBy(c)
    \/ CallbackBack

SpecFlows == InitFlows /\ [][NextFlows]_vars

---------------------------------------------------------------------------
(* The exchange callbacks as coroutines: start_polling handles every       *)
(* update in a task of its own, so a second callback may start while the   *)
(* first is suspended at an await.  Each of the three callers holds a      *)
(* position of the one event, and two callbacks may be in flight.          *)

\* the ledger is the one after the three callers registered in turn
InitRace ==
    /\ events = add_event({}, 1, "os", MaxCap, 0).events
    /\ nextId = 2
    /\ queue = {Row(1, u, u) : u \in UserIds}
    /\ last = [op |-> "init_db", ret |-> Ret(TRUE, "OK", 0)]
    /\ procs = [i \in ProcIds |-> NoCall]
    /\ config = NoConfig
    /\ fsm = NoState
    /\ allowed = {}
    /\ pending = NoPending
    /\ handlers = NoHandlers

NextRace ==
    \/ CmdExchange
    \/ \E i \in ProcIds : AcceptBeginWith(i, TRUE)
    \/ \E i \in ProcIds : AcceptEnd(i)
    \/ \E i \in ProcIds : DeclineBeginWith(i, TRUE)
    \/ \E i \in ProcIds : DeclineEnd(i)

SpecRace == InitRace /\ [][NextRace]_vars

---------------------------------------------------------------------------
(* Claims about exchange callbacks in flight.                              *)

\* handler `i` is suspended in an accept of caller `u` on the button of
\* initiator `f`
AcceptSuspended(i, u, f) ==
    /\ handlers[i].pc = "accept_reply"
    /\ handlers[i].user_id = u
    /\ handlers[i].from_user_id = f

\* C36: when the same target presses accept on the same request a second
\* time while the first handling is suspended at its message edit, after
\* its swap and before its del statement, the second handling swaps
\* nothing: the swap is performed once and the two callers stay exchanged.
DoubleAcceptSwapsOnce ==
    [][ \A i \in ProcIds, j \in ProcIds, u \in UserIds, f \in UserIds :
            ( /\ i # j
              /\ AcceptSuspended(i, u, f)
              /\ LastIs("callback_exchange_accept", "OK")
              /\ handlers[j].pc = "idle"
              /\ handlers'[j] = handlers[i] )
            => queue' = queue ]_vars

\* C38: the del statement that ends an accept or a decline removes the
\* request the handling validated: a request of another initiator, stored
\* for the same target while the handler was suspended, is still pending
\* when the handler has finished.
EndKeepsNewerRequest ==
    [][ \A i \in ProcIds :
            ( /\ handlers[i].pc \in {"accept_reply", "decline_reply"}
              /\ handlers'[i].pc = "idle"
              /\ pending[handlers[i].user_id] # NoRequest
              /\ pending[handlers[i].user_id].from_user_id
                     # handlers[i].from_user_id )
            => pending'[handlers[i].user_id]
                   = pending[handlers[i].user_id] ]_vars

---------------------------------------------------------------------------
(* Requests that outlive the state they were made in: two events, the      *)
(* callers register and cancel between a request and its answer, and an    *)
(* entry of pending_exchanges keeps the two positions read at request      *)
(* time, which the accept handler reports as the new positions.            *)

\* the entry cmd_exchange stores for `target` when `caller` asks in event
\* `event_id`, both holding a row there
exchange_record(q, event_id, caller, target) ==
    [from_user_id |-> caller,
     event_id |-> event_id,
     from_position |->
         CHOOSE p \in get_user_position(q, event_id, caller) : TRUE,
     target_position |->
         CHOOSE p \in get_user_position(q, event_id, target) : TRUE]

\* two open events of MaxCap - 1 positions, nobody registered, no request
InitRecorded ==
    /\ events = add_event(add_event({}, 1, "os", MaxCap - 1, 0).events, 2,
                          "db", MaxCap - 1, 0).events
    /\ nextId = 3
    /\ queue = {}
    /\ last = [op |-> "init_db", ret |-> Ret(TRUE, "OK", 0)]
    /\ procs = [i \in ProcIds |-> NoCall]
    /\ config = NoConfig
    /\ fsm = NoState
    /\ allowed = {}
    /\ pending = NoPending
    /\ handlers = NoHandlers

\* /e of a caller with an account, with the whole entry stored
CmdExchangeRecorded ==
    \E c \in RealIds, h \in Handles, k \in MemberWords :
        \E r \in {cmd_exchange(events, queue, pending, c, h, k)} :
            /\ queue' = r.queue
            /\ pending' =
                   IF r.ret.ok
                   THEN [r.pending EXCEPT ![r.ret.info] =
                            exchange_record(queue, @.event_id, c,
                                            r.ret.info)]
                   ELSE r.pending
            /\ last' = [op |-> "cmd_exchange", ret |-> r.ret]
            /\ UNCHANGED <<events, nextId, procs, config, fsm, allowed,
                           handlers>>

NextRecorded ==
    \/ RegisterSelf
    \/ CancelSelf
    \/ CmdExchangeRecorded
    \/ \E i \in Clicks : AcceptBegin(i)
    \/ \E i \in Clicks : AcceptEnd(i)

SpecRecorded == InitRecorded /\ [][NextRecorded]_vars

---------------------------------------------------------------------------
(* Claims about requests answered late.                                    *)

\* C35: when the request of initiator A stored for target B in event E1 is
\* replaced by a request of the same A to B in another event E2, an accept
\* by B on the buttons shown for the E1 request (they name A) swaps
\* nothing in E2, nor in any event other than E1.
SupersededAcceptKeepsEvent ==
    [][ \A b \in UserIds, a \in UserIds :
            ( /\ pending[b] # NoRequest
              /\ pending'[b] # NoRequest
              /\ pending[b].from_user_id = a
              /\ pending'[b].from_user_id = a
              /\ pending'[b].event_id # pending[b].event_id )
            => \A fail \in ExchangeFailures(queue', pending', b) :
               \A r \in {callback_exchange_accept(queue', pending', b, a,
                                                  fail, TRUE)} :
               \A o \in EventArgs \ {pending[b].event_id} :
                   RowsIn(r.queue, o) = RowsIn(queue', o) ]_vars

\* C37: after an accept whose swap succeeds the target holds the position
\* the request recorded for the initiator (from_position, reported to the
\* target as the new position) and the initiator holds the recorded
\* position of the target, whatever the callers did to the ledger between
\* the request and the accept (no other callback being in flight).
RecordedPositionsHold ==
    \A u \in UserIds, f \in UserIds :
        (u # f /\ handlers = NoHandlers /\ ~stale(pending, u, f)) =>
            \A r \in {callback_exchange_accept(queue, pending, u, f, 0,
                                               TRUE)} :
                r.ret.ok =>
                    /\ PositionsOf(r.queue, pending[u].event_id, u)
                           = {pending[u].from_position}
                    /\ PositionsOf(r.queue, pending[u].event_id, f)
                           = {pending[u].target_position}

---------------------------------------------------------------------------
(* Claims about the conversations.                                         *)

\* C31: the back button, pressed in any state of the conversation (the
\* steps of event creation, of registration and of the rename included),
\* leaves the caller with no state and no data, and changes neither the
\* catalog nor any entry of the ledger.
BackClearsOnly ==
    /\ fsm.state \in {"", "waiting_for_event_name",
                      "waiting_for_max_positions", "waiting_for_subgroup",
                      "waiting_for_position", "waiting_for_new_name"}
    /\ callback_back(events, queue, fsm)
           = [events |-> events, queue |-> queue, fsm |-> NoState]

\* the rename step with the data of all three flows collected, on a ledger
\* with an entry: the state the back button is pressed in
BackClearsOnlyWitness ==
    /\ fsm.state = "waiting_for_new_name"
    /\ fsm.keys = {"event_name", "max_positions", "event_id",
                   "rename_event_id"}
    /\ queue # {}

\* C32: the steps that enter and advance a flow (the conversation changes
\* and is left in one of its states) change neither the catalog nor the
\* ledger; a step of the conversation that changes one of them is the
\* subgroup choice, the position text or the new name, and ends the
\* conversation.
OnlyLastStepCommits ==
    [][ /\ (fsm' # fsm /\ fsm'.state # "")
            => UNCHANGED <<events, nextId, queue>>
        /\ (fsm' # fsm /\ ~UNCHANGED <<events, nextId, queue>>)
            => /\ fsm' = NoState
               /\ \/ fsm.state = "waiting_for_position" /\ queue' # queue
                  \/ fsm.state = "waiting_for_new_name" /\ events' # events
                  \/ /\ {"event_name", "max_positions"} \subseteq fsm.keys
                     /\ nextId' # nextId ]_vars

\* a registration went through its last step, and a creation has reached
\* its last step with no event created
OnlyLastStepCommitsWitness ==
    /\ fsm.state = "waiting_for_subgroup"
    /\ nextId = 2
    /\ last.op = "process_position"
    /\ last.ret.ok
    /\ queue # {}

\* C39: add_event is called by the conversation only in state
\* waiting_for_subgroup: a subgroup choice that arrives in any other state
\* (none, waiting_for_position, waiting_for_new_name,
\* waiting_for_event_name, waiting_for_max_positions) creates no event and
\* leaves the conversation, state and data, as it is.
SubgroupChoiceNeedsItsState ==
    [][ (ProcessSubgroup /\ fsm.state # "waiting_for_subgroup")
            => UNCHANGED <<events, nextId, fsm>> ]_vars

====
